---- MODULE Spec2Model ----
(***************************************************************************)
(* Verification model of pomboid/kill-fake-news: the multi-provider LLM    *)
(* manager (core/llm), the fact-verification engine                        *)
(* (modules/detection/verification_engine.py) and the news detector        *)
(* (modules/analysis/detector.py).                                         *)
(***************************************************************************)
EXTENDS Integers, Sequences, FiniteSets, Bags, TLC

\* ------------------------------------------------------------------------
\* Bounds of the model
\* ------------------------------------------------------------------------
\* number of manager calls that may be in flight at the same time
MaxCalls == 2
\* number of provider calls the manager makes in one behaviour
MaxInvocations == 4
\* number of mark_success / mark_failure calls in one provider-level behaviour
MaxMarks == 7
\* number of verify_claim calls in one behaviour
MaxVerify == 2
\* number of articles in the reference file
MaxArticles == 4
\* number of run_batch_analysis runs in one behaviour with overlapping runs
MaxRuns == 2
\* number of index_documents calls in one behaviour
MaxIndexRuns == 3
\* the longest embedding vector handed to adapt_embedding
MaxDims == 3
\* the number of HTTP requests the server handles
MaxRequests == 3
\* the number of pipeline runs (scheduled job or full-pipeline command)
MaxPipelines == 2
\* number of provider invocations in one behaviour of the priority-mode manager
MaxPriorityInvocations == 6

None == "None"

\* ------------------------------------------------------------------------
\* core/llm/base.py : provider health
\* ------------------------------------------------------------------------
\* the errors a provider call can end with (str(error) is kept in last_error)
Errors == {"transport", "ratelimit", "parse"}

\* the credentials a provider can be constructed with: None, "" or a key
ApiKeys == {None, "", "key"}

\* `not api_key` of Python: None and the empty string are falsy
Falsy(api_key) == api_key \in {None, ""}

\* LLMProvider.__init__ / EmbeddingProvider.__init__
NewProvider(api_key) ==
    [api_key       |-> api_key,
     status        |-> IF Falsy(api_key) THEN "DISABLED" ELSE "ACTIVE",
     error_count   |-> 0,
     success_count |-> 0,
     last_error    |-> None]

\* mutant: a success resets the counter but leaves the status as it was
mark_success_sticky(p) ==
    [p EXCEPT !.success_count = @ + 1,
              !.error_count   = 0]

\* LLMProvider.mark_success
mark_success(p) ==
    [p EXCEPT !.success_count = @ + 1,
              !.error_count   = 0,
              !.status        = "ACTIVE"]

\* mutant: the failure threshold is off by one
mark_failure_late(p, error) ==
    LET q == [p EXCEPT !.error_count = @ + 1, !.last_error = error]
    IN  IF q.error_count >= 4 THEN [q EXCEPT !.status = "FAILED"] ELSE q

\* LLMProvider.mark_failure
mark_failure(p, error) ==
    LET q == [p EXCEPT !.error_count = @ + 1, !.last_error = error]
    IN  IF q.error_count >= 3 THEN [q EXCEPT !.status = "FAILED"] ELSE q

\* mutant: the health status is not consulted
is_available_any(p) == p.api_key # None

\* LLMProvider.is_available
is_available(p) == p.status = "ACTIVE" /\ p.api_key # None

\* ------------------------------------------------------------------------
\* core/llm/manager.py : the provider pools
\* ------------------------------------------------------------------------
\* LLMManager.__init__: the provider classes in their fixed priority order
provider_classes == <<"groq", "gemini", "openai">>

Names == {provider_classes[i] : i \in DOMAIN provider_classes}

\* isinstance(provider, EmbeddingProvider)
IsEmbeddingProvider(n) == n \in {"gemini", "openai"}

\* embedding_adapter.TARGET_DIMENSIONS
TARGET_DIMENSIONS == 1536

\* <Provider>.embedding_dimensions
embedding_dimensions(n) == IF n = "gemini" THEN 768 ELSE 1536

Ops == {"generate_text", "generate_json", "get_embedding"}

VARIABLES
    prov,                    \* provider-level behaviour: one provider object
    consec,                  \* history: mark_failure calls since the last mark_success
    last_op,                 \* history: the last call made on prov
    marks,                   \* history: number of mark_* calls made on prov
    failed_calls,            \* history: calls on prov that raised since the last one that returned
    oai_call,                \* the OpenAIProvider call on prov in progress or last finished
    load_balance,            \* LLMManager.load_balance
    current_provider_index,  \* LLMManager._current_provider_index
    llm_providers,           \* LLMManager.llm_providers (names, priority order)
    embedding_providers,     \* LLMManager.embedding_providers
    providers,               \* name -> provider object of the manager
    calls,                   \* the bag of manager calls in flight
    outcome,                 \* the manager call that returned or raised in the last step
    invocations,             \* history: number of provider calls made so far
    enabled_providers,       \* history: the enabled_providers argument of __init__
    status_view,             \* what the get_status call of the last step returned
    served,                  \* history: the calls that returned, oldest first
    history,                 \* the lines of FactVerificationEngine.HISTORY_FILE
    vcall,                   \* the verify_claim call in progress or last finished
    verified,                \* history: number of verify_claim calls made
    history_view,            \* what the get_history call of the last step returned
    reference_file,          \* the lines of Config.REFERENCE_FILE_PATH
    analysis_file,           \* the lines of Config.ANALYSIS_FILE_PATH
    runs,                    \* the bag of run_batch_analysis runs in progress
    finished_run,            \* the run that returned in the last step
    last_analysis,           \* the analyze_article call that returned in the last step
    runs_started,            \* history: number of run_batch_analysis runs started
    vector_store,            \* the articles in the Chroma reference collection
    index_call,              \* the index_documents call in progress or last finished
    index_runs,              \* history: number of index_documents calls made
    adapter_input,           \* the embedding argument of adapt_embedding
    adapter_target,          \* the target_dims argument of adapt_embedding
    adapted,                 \* the results of applying adapt_embedding once, twice
    VORTEX_API_KEY,          \* server.VORTEX_API_KEY
    http_request,            \* the HTTP request handled in the last step
    http_response,           \* the response to it
    requests_made,           \* history: number of requests handled
    pipeline,                \* the pipeline run in progress or last finished
    pipeline_log             \* history: the pipeline runs that finished before

provVars == <<prov, consec, last_op, marks, failed_calls, oai_call>>
mgrVars  == <<load_balance, current_provider_index, llm_providers,
              embedding_providers, providers, calls, outcome, invocations,
              enabled_providers, status_view, served>>
verVars  == <<history, vcall, verified, history_view>>
anaVars  == <<reference_file, analysis_file, runs, finished_run,
              last_analysis, runs_started>>
idxVars  == <<vector_store, index_call, index_runs>>
adpVars  == <<adapter_input, adapter_target, adapted>>
srvVars  == <<VORTEX_API_KEY, http_request, http_response, requests_made>>
plVars   == <<pipeline, pipeline_log>>
vars     == <<provVars, mgrVars, verVars, anaVars, idxVars, adpVars, srvVars,
              plVars>>

\* what the steps of one part of the program leave alone
restOfProvider == <<mgrVars, verVars, anaVars, idxVars, adpVars, srvVars, plVars>>
restOfManager  == <<provVars, verVars, anaVars, idxVars, adpVars, srvVars, plVars>>
restOfVerify   == <<provVars, mgrVars, anaVars, idxVars, adpVars, srvVars, plVars>>
restOfAnalysis == <<provVars, mgrVars, verVars, idxVars, adpVars, srvVars, plVars>>
restOfIndexing == <<provVars, mgrVars, verVars, analysis_file, runs,
                    finished_run, last_analysis, runs_started, adpVars,
                    srvVars, plVars>>
restOfAdapter  == <<provVars, mgrVars, verVars, anaVars, idxVars, srvVars, plVars>>
restOfPipeline == <<provVars, mgrVars, verVars, anaVars, idxVars, adpVars,
                    srvVars>>
restOfServer   == <<provVars, mgrVars, verVars, anaVars, idxVars, adpVars, plVars>>

\* ------------------------------------------------------------------------
\* Provider-level behaviour: any sequence of mark_success / mark_failure
\* ------------------------------------------------------------------------
\* attempts counts the backend requests of the call, successes and failures
\* its mark_success and mark_failure calls, before is the provider object
\* as the call found it and last the outcome of its latest backend request
IdleOpenAI ==
    [pc |-> "idle", op |-> None, attempts |-> 0, successes |-> 0,
     failures |-> 0, last |-> None, before |-> NewProvider(None)]

ProvInit ==
    /\ prov \in {NewProvider(k) : k \in ApiKeys}
    /\ consec = 0
    /\ last_op = "init"
    /\ marks = 0
    /\ failed_calls = 0
    /\ oai_call = IdleOpenAI

MarkSuccess ==
    /\ marks < MaxMarks
    /\ prov' = mark_success(prov)
    /\ consec' = 0
    /\ last_op' = "mark_success"
    /\ marks' = marks + 1
    /\ UNCHANGED <<failed_calls, oai_call>>

MarkFailure(error) ==
    /\ marks < MaxMarks
    /\ prov' = mark_failure(prov, error)
    /\ consec' = consec + 1
    /\ last_op' = "mark_failure"
    /\ marks' = marks + 1
    /\ UNCHANGED <<failed_calls, oai_call>>

ProvNext ==
    \/ MarkSuccess /\ UNCHANGED restOfProvider
    \/ \E e \in Errors : MarkFailure(e) /\ UNCHANGED restOfProvider

\* ------------------------------------------------------------------------
\* Provider-level behaviour: the calls generate_text, generate_json and
\* get_embedding of one provider (core/llm/providers/*.py)
\* ------------------------------------------------------------------------
\* generate_json when the backend answers with text that is not valid JSON:
\* mark_success() has run before json.loads raises, and the except branch
\* then runs mark_failure(e)
generate_json_unparseable(p) == mark_failure(mark_success(p), "parse")

\* a call on the provider gets a usable answer and returns it
CallReturns ==
    /\ marks < MaxMarks
    /\ prov' = mark_success(prov)
    /\ consec' = 0
    /\ failed_calls' = 0
    /\ last_op' = "returned"
    /\ marks' = marks + 1
    /\ UNCHANGED oai_call

\* the backend request of a call fails with a transport or rate-limit error
CallRaises(error) ==
    /\ marks < MaxMarks
    /\ prov' = mark_failure(prov, error)
    /\ consec' = consec + 1
    /\ failed_calls' = failed_calls + 1
    /\ last_op' = "raised"
    /\ marks' = marks + 1
    /\ UNCHANGED oai_call

\* a generate_json call gets an answer that is not valid JSON and raises
JsonCallRaises ==
    /\ marks + 1 < MaxMarks
    /\ prov' = generate_json_unparseable(prov)
    /\ consec' = 1
    /\ failed_calls' = failed_calls + 1
    /\ last_op' = "raised"
    /\ marks' = marks + 2
    /\ UNCHANGED oai_call

\* ------------------------------------------------------------------------
\* core/llm/providers/openai_provider.py : one OpenAIProvider
\* ------------------------------------------------------------------------
\* `max_retries = 5` of generate_text, generate_json and get_embedding
openai_max_retries == 5

\* what a backend request of the provider comes to: RateLimitError, another
\* exception, a reply, or (for generate_json) a reply that is not valid JSON
BackendOutcomes(op) ==
    {"ratelimit", "error", "reply"}
       \cup (IF op = "generate_json" THEN {"bad_json"} ELSE {})

\* a caller invokes generate_text, generate_json or get_embedding on prov
OpenAIStart(op) ==
    /\ oai_call.pc # "running"
    /\ marks < MaxMarks
    /\ oai_call' = [IdleOpenAI EXCEPT !.pc = "running", !.op = op,
                                      !.before = prov]
    /\ UNCHANGED <<prov, consec, last_op, marks, failed_calls>>

\* one pass of `for attempt in range(max_retries)`: the backend request and
\* the branch of the try statement its outcome leads to
OpenAIAttempt(result) ==
    /\ oai_call.pc = "running"
    /\ result \in BackendOutcomes(oai_call.op)
    /\ LET attempt == oai_call.attempts
           made    == [oai_call EXCEPT !.attempts = @ + 1, !.last = result]
       IN  IF result = "ratelimit" /\ attempt < openai_max_retries - 1
           THEN /\ oai_call' = made
                /\ UNCHANGED <<prov, marks>>
           ELSE IF result \in {"ratelimit", "error"}
           THEN /\ prov' = mark_failure(prov, result)
                /\ marks' = marks + 1
                /\ oai_call' = [made EXCEPT !.pc = "raised", !.failures = @ + 1]
           ELSE IF result = "bad_json"
           THEN /\ prov' = generate_json_unparseable(prov)
                /\ marks' = marks + 2
                /\ oai_call' = [made EXCEPT !.pc = "raised", !.successes = @ + 1,
                                            !.failures = @ + 1]
           ELSE /\ prov' = mark_success(prov)
                /\ marks' = marks + 1
                /\ oai_call' = [made EXCEPT !.pc = "returned",
                                            !.successes = @ + 1]
    /\ UNCHANGED <<consec, last_op, failed_calls>>

OpenAINext ==
    \/ \E op \in Ops : OpenAIStart(op) /\ UNCHANGED restOfProvider
    \/ \E result \in {"ratelimit", "error", "reply", "bad_json"} :
          OpenAIAttempt(result) /\ UNCHANGED restOfProvider

ProvCallNext ==
    \/ CallReturns /\ UNCHANGED restOfProvider
    \/ \E e \in {"transport", "ratelimit"} :
          CallRaises(e) /\ UNCHANGED restOfProvider
    \/ JsonCallRaises /\ UNCHANGED restOfProvider

\* ------------------------------------------------------------------------
\* core/llm/manager.py : LLMManager
\* ------------------------------------------------------------------------
\* configurations the manager is constructed from: the enabled_providers list
\* (<<>> stands for None: every provider class is enabled) and the api_keys
EnabledChoices == {<<>>, <<"gemini", "groq">>}
KeyChoices     == {[n \in Names |-> "key"],
                   [n \in Names |-> IF n = "openai" THEN None ELSE "key"]}

InSeq(x, s) == \E i \in DOMAIN s : s[i] = x

\* LLMManager.__init__: the names of the providers that get constructed,
\* in the order of provider_classes
Constructed(enabled, api_keys) ==
    SelectSeq(provider_classes,
              LAMBDA n : /\ (Len(enabled) = 0 \/ InSeq(n, enabled))
                         /\ ~Falsy(api_keys[n]))

NoResult == [kind |-> "none", from |-> None, vector |-> <<>>]
NoError  == [kind |-> "none", attempts |-> 0, last |-> None]

\* the value of status_view when the last step was not a get_status call
NoStatus == [called |-> FALSE, llm_providers |-> <<>>,
             embedding_providers |-> <<>>]

IdleCall ==
    [pc |-> "idle", op |-> None, retry_all |-> TRUE, tried |-> <<>>,
     provider |-> None, selections |-> 0,
     last_error |-> None, result |-> NoResult, error |-> NoError]

\* the pool a manager operation selects from
PoolOf(op) == IF op = "get_embedding" THEN embedding_providers ELSE llm_providers

\* mutant: the embedding pool keeps a health state of its own, which the
\* failures recorded on the provider do not reach
Available_per_pool(pool, ps) ==
    IF pool = embedding_providers
    THEN SelectSeq(pool, LAMBDA n : ps[n].api_key # None)
    ELSE SelectSeq(pool, LAMBDA n : is_available(ps[n]))

\* the available providers of a pool, in pool order
Available(pool, ps) == SelectSeq(pool, LAMBDA n : is_available(ps[n]))

\* mutant: the cursor advances in priority mode too
get_next_provider_advancing(pool, ps, index) ==
    LET available == Available(pool, ps)
    IN  IF Len(available) = 0
        THEN [provider |-> None, index |-> index]
        ELSE IF load_balance
        THEN [provider |-> available[(index % Len(available)) + 1],
              index    |-> index + 1]
        ELSE [provider |-> available[1], index |-> index + 1]

\* LLMManager._get_next_provider: the selected provider and the new cursor
get_next_provider(pool, ps, index) ==
    LET available == Available(pool, ps)
    IN  IF Len(available) = 0
        THEN [provider |-> None, index |-> index]
        ELSE IF load_balance
        THEN [provider |-> available[(index % Len(available)) + 1],
              index    |-> index + 1]
        ELSE [provider |-> available[1], index |-> index]

\* mutant: a provider that was already tried in this call is invoked again
Iterate_retrying(cr, ps, index) ==
    LET sel == get_next_provider(PoolOf(cr.op), ps, index)
    IN  IF sel.provider = None
        THEN [call  |-> [cr EXCEPT !.pc = "raised", !.provider = None,
                                   !.selections = @ + 1,
                                   !.error = [kind |-> "unavailable",
                                              attempts |-> 0, last |-> None]],
              index |-> sel.index]
        ELSE [call  |-> [cr EXCEPT !.pc = "awaiting",
                                   !.selections = @ + 1,
                                   !.provider = sel.provider,
                                   !.tried = Append(@, sel.provider)],
              index |-> sel.index]

\* one pass of the `while True` loop of generate_text / generate_json /
\* get_embedding, from the selection to the provider call it awaits or to
\* the exception it raises
Iterate(cr, ps, index) ==
    LET sel == get_next_provider(PoolOf(cr.op), ps, index)
    IN  IF sel.provider = None
        THEN [call  |-> [cr EXCEPT !.pc = "raised", !.provider = None,
                                   !.selections = @ + 1,
                                   !.error = [kind |-> "unavailable",
                                              attempts |-> 0, last |-> None]],
              index |-> sel.index]
        ELSE IF InSeq(sel.provider, cr.tried)
        THEN [call  |-> [cr EXCEPT !.pc = "raised", !.provider = None,
                                   !.selections = @ + 1,
                                   !.error = [kind |-> "all_failed",
                                              attempts |-> Len(cr.tried),
                                              last |-> cr.last_error]],
              index |-> sel.index]
        ELSE [call  |-> [cr EXCEPT !.pc = "awaiting",
                                   !.selections = @ + 1,
                                   !.provider = sel.provider,
                                   !.tried = Append(@, sel.provider)],
              index |-> sel.index]

\* mutant: the list of tried providers is forgotten after a failure
OnFailure_forgetting(cr, e, ps, index) ==
    LET failed == [cr EXCEPT !.last_error = e]
    IN  IF ~cr.retry_all
        THEN [call  |-> [failed EXCEPT !.pc = "raised", !.provider = None,
                                       !.error = [kind |-> "backend",
                                                  attempts |-> 0, last |-> e]],
              index |-> index]
        ELSE Iterate([failed EXCEPT !.tried = <<>>], ps, index)

\* the `except Exception as e` branch of the manager loop
OnFailure(cr, e, ps, index) ==
    LET failed == [cr EXCEPT !.last_error = e]
    IN  IF ~cr.retry_all
        THEN [call  |-> [failed EXCEPT !.pc = "raised", !.provider = None,
                                       !.error = [kind |-> "backend",
                                                  attempts |-> 0, last |-> e]],
              index |-> index]
        ELSE Iterate(failed, ps, index)

\* what the provider hands back on success
RawResult(op, n) ==
    IF op = "get_embedding"
    THEN [kind |-> "embedding", from |-> n,
          vector |-> [i \in 1..embedding_dimensions(n) |-> 1]]
    ELSE IF op = "generate_json"
    THEN [kind |-> "json", from |-> n, vector |-> <<>>]
    ELSE [kind |-> "text", from |-> n, vector |-> <<>>]

MgrInit ==
    /\ load_balance \in BOOLEAN
    /\ current_provider_index = 0
    /\ \E enabled \in EnabledChoices, keys \in KeyChoices :
          /\ llm_providers = Constructed(enabled, keys)
          /\ embedding_providers =
                SelectSeq(Constructed(enabled, keys), IsEmbeddingProvider)
          /\ providers = [n \in Names |-> NewProvider(keys[n])]
          /\ enabled_providers = enabled
    /\ calls = EmptyBag
    /\ outcome = IdleCall
    /\ invocations = 0
    /\ status_view = NoStatus
    /\ served = <<>>

\* the call that was old goes on as cr: it awaits a provider, or it has
\* returned or raised, which hands cr to the caller
Settle(old, cr) ==
    IF cr.pc = "awaiting"
    THEN /\ invocations < MaxInvocations
         /\ invocations' = invocations + 1
         /\ calls' = (calls (-) SetToBag({old})) (+) SetToBag({cr})
         /\ outcome' = IdleCall
    ELSE /\ calls' = calls (-) SetToBag({old})
         /\ outcome' = cr
         /\ UNCHANGED invocations

\* a caller invokes manager.generate_text / generate_json / get_embedding
StartCall(op, retry_all) ==
    /\ BagCardinality(calls) < MaxCalls
    /\ LET fresh == [IdleCall EXCEPT !.op = op, !.retry_all = retry_all]
           step  == Iterate(fresh, providers, current_provider_index)
       IN  /\ Settle(IdleCall, step.call)
           /\ current_provider_index' = step.index
    /\ UNCHANGED <<load_balance, llm_providers, embedding_providers, providers,
                   enabled_providers>>

\* the backend answers the request of the call cr; parseable tells whether
\* the reply of a generate_json request is valid JSON
BackendReplies(cr, parseable) ==
    /\ BagIn(cr, calls)
    /\ LET n  == cr.provider
           ok == [providers EXCEPT ![n] = mark_success(@)]
       IN  IF cr.op = "generate_json" /\ ~parseable
           THEN LET ps   == [ok EXCEPT ![n] = mark_failure(@, "parse")]
                    step == OnFailure(cr, "parse", ps, current_provider_index)
                IN  /\ providers' = ps
                    /\ Settle(cr, step.call)
                    /\ current_provider_index' = step.index
           ELSE /\ providers' = ok
                /\ Settle(cr, [cr EXCEPT !.pc = "returned", !.provider = None,
                                         !.result = RawResult(cr.op, n)])
                /\ UNCHANGED current_provider_index
    /\ UNCHANGED <<load_balance, llm_providers, embedding_providers,
                   enabled_providers>>

\* mutant: after a failure the loop selects as if the provider that failed
\* were unavailable
BackendFails_skipping(cr, e) ==
    /\ BagIn(cr, calls)
    /\ LET n    == cr.provider
           ps   == [providers EXCEPT ![n] = mark_failure(@, e)]
           step == OnFailure(cr, e, [ps EXCEPT ![n].status = "FAILED"],
                             current_provider_index)
       IN  /\ providers' = ps
           /\ Settle(cr, step.call)
           /\ current_provider_index' = step.index
    /\ UNCHANGED <<load_balance, llm_providers, embedding_providers,
                   enabled_providers>>

\* the provider call of the call cr raises error e (for OpenAIProvider: after
\* its rate-limit retries, during which the health counters are left alone)
BackendFails(cr, e) ==
    /\ BagIn(cr, calls)
    /\ LET n    == cr.provider
           ps   == [providers EXCEPT ![n] = mark_failure(@, e)]
           step == OnFailure(cr, e, ps, current_provider_index)
       IN  /\ providers' = ps
           /\ Settle(cr, step.call)
           /\ current_provider_index' = step.index
    /\ UNCHANGED <<load_balance, llm_providers, embedding_providers,
                   enabled_providers>>

\* the manager under concurrent callers; get_status is not called and the
\* log of served calls is not kept
restOfCalls == <<status_view, served, restOfManager>>

MgrNext ==
    \/ \E op \in Ops, r \in BOOLEAN :
          StartCall(op, r) /\ UNCHANGED restOfCalls
    \/ \E cr \in BagToSet(calls), parseable \in BOOLEAN :
          BackendReplies(cr, parseable) /\ UNCHANGED restOfCalls
    \/ \E cr \in BagToSet(calls), e \in {"transport", "ratelimit"} :
          BackendFails(cr, e) /\ UNCHANGED restOfCalls

\* the properties of the provider classes that get_status reports
display_name(n) ==
    IF n = "groq" THEN "Groq (FREE)"
    ELSE IF n = "gemini" THEN "Google Gemini" ELSE "OpenAI"

is_free(n) == n \in {"groq", "gemini"}

\* mutant: only the providers that are available are reported
get_status_available(llm, emb, ps) ==
    [called |-> TRUE,
     llm_providers |->
        LET pool == Available(llm, ps)
        IN  [i \in DOMAIN pool |->
              [name          |-> display_name(pool[i]),
               status        |-> ps[pool[i]].status,
               is_free       |-> is_free(pool[i]),
               success_count |-> ps[pool[i]].success_count,
               error_count   |-> ps[pool[i]].error_count,
               last_error    |-> ps[pool[i]].last_error]],
     embedding_providers |->
        LET pool == Available(emb, ps)
        IN  [i \in DOMAIN pool |->
              [name          |-> display_name(pool[i]),
               status        |-> ps[pool[i]].status,
               dimensions    |-> embedding_dimensions(pool[i]),
               success_count |-> ps[pool[i]].success_count,
               error_count   |-> ps[pool[i]].error_count,
               last_error    |-> ps[pool[i]].last_error]]]

\* LLMManager.get_status: one entry per provider of each pool, in pool order
get_status(llm, emb, ps) ==
    [called |-> TRUE,
     llm_providers |->
        [i \in DOMAIN llm |->
           [name          |-> display_name(llm[i]),
            status        |-> ps[llm[i]].status,
            is_free       |-> is_free(llm[i]),
            success_count |-> ps[llm[i]].success_count,
            error_count   |-> ps[llm[i]].error_count,
            last_error    |-> ps[llm[i]].last_error]],
     embedding_providers |->
        [i \in DOMAIN emb |->
           [name          |-> display_name(emb[i]),
            status        |-> ps[emb[i]].status,
            dimensions    |-> embedding_dimensions(emb[i]),
            success_count |-> ps[emb[i]].success_count,
            error_count   |-> ps[emb[i]].error_count,
            last_error    |-> ps[emb[i]].last_error]]]

\* a caller invokes manager.get_status(); the outcome of a manager call that
\* finished before has been handed to its caller
GetStatus ==
    /\ status_view' = get_status(llm_providers, embedding_providers, providers)
    /\ outcome' = IdleCall
    /\ UNCHANGED <<load_balance, current_provider_index, llm_providers,
                   embedding_providers, providers, calls, invocations,
                   enabled_providers, served>>

\* the log of served calls after a step: a call that returns is appended
Served ==
    IF outcome'.pc = "returned"
    THEN Append(served, [op |-> outcome'.op, from |-> outcome'.result.from])
    ELSE served

\* the manager under one caller that makes its calls one after the other and
\* reads the status in between
MgrSeqNext ==
    \/ \E op \in Ops, r \in BOOLEAN :
          /\ calls = EmptyBag
          /\ StartCall(op, r)
          /\ status_view' = NoStatus
          /\ UNCHANGED <<served, restOfManager>>
    \/ \E cr \in BagToSet(calls), parseable \in BOOLEAN :
          /\ BackendReplies(cr, parseable)
          /\ status_view' = NoStatus
          /\ UNCHANGED <<served, restOfManager>>
    \/ \E cr \in BagToSet(calls), e \in {"transport", "ratelimit"} :
          /\ BackendFails(cr, e)
          /\ status_view' = NoStatus
          /\ UNCHANGED <<served, restOfManager>>
    \/ GetStatus /\ UNCHANGED restOfManager

\* the manager under one caller whose calls all succeed: every backend
\* request is answered with a usable reply, and the served calls are logged
MgrHealthyNext ==
    \/ \E op \in Ops, r \in BOOLEAN :
          /\ calls = EmptyBag
          /\ StartCall(op, r)
          /\ served' = Served
          /\ UNCHANGED <<status_view, restOfManager>>
    \/ \E cr \in BagToSet(calls) :
          /\ BackendReplies(cr, TRUE)
          /\ served' = Served
          /\ UNCHANGED <<status_view, restOfManager>>

\* the parts of the program a specification does not exercise stay as
\* constructed
ProvIdle ==
    /\ prov = NewProvider("key")
    /\ consec = 0
    /\ last_op = "init"
    /\ marks = 0
    /\ failed_calls = 0
    /\ oai_call = IdleOpenAI

MgrIdle ==
    /\ load_balance = FALSE
    /\ current_provider_index = 0
    /\ llm_providers = <<>>
    /\ embedding_providers = <<>>
    /\ providers = [n \in Names |-> NewProvider(None)]
    /\ calls = EmptyBag
    /\ outcome = IdleCall
    /\ invocations = 0
    /\ enabled_providers = <<>>
    /\ status_view = NoStatus
    /\ served = <<>>

\* ------------------------------------------------------------------------
\* modules/detection/verification_engine.py : FactVerificationEngine
\* ------------------------------------------------------------------------
\* An LLM response is a sequence of tokens: braces, prose without braces,
\* markdown fences, and the keys and scalar values of JSON text.  A JSON
\* value is represented by its text ('...' for strings).
Tok(t, x) == [t |-> t, x |-> x]
Open      == Tok("{", "")
Close     == Tok("}", "")
Txt       == Tok("txt", "")
Fence     == Tok("fence", "")
Key(k)    == Tok("key", k)
Val(v)    == Tok("val", v)

EmptyDict == [k \in {} |-> ""]

\* d[k] = v of a Python dict
Put(d, k, v) == [x \in DOMAIN d \cup {k} |-> IF x = k THEN v ELSE d[x]]

ParseFail == [ok |-> FALSE, next |-> 0, dict |-> EmptyDict]

\* json.loads, inside an object: the members from token i up to the closing
\* brace, added to the dict d (a repeated key keeps its last value)
RECURSIVE ParseMembers(_, _, _)
ParseMembers(s, i, d) ==
    IF i > Len(s) THEN ParseFail
    ELSE IF s[i].t = "}" THEN [ok |-> TRUE, next |-> i + 1, dict |-> d]
    ELSE IF s[i].t # "key" \/ i + 1 > Len(s) THEN ParseFail
    ELSE IF s[i + 1].t = "val"
         THEN ParseMembers(s, i + 2, Put(d, s[i].x, s[i + 1].x))
    ELSE IF s[i + 1].t = "{"
         THEN LET inner == ParseMembers(s, i + 2, EmptyDict)
              IN  IF inner.ok
                  THEN ParseMembers(s, inner.next, Put(d, s[i].x, "{...}"))
                  ELSE ParseFail
    ELSE ParseFail

\* json.loads(text) for a text that starts with a brace: the dict, or a
\* failure (JSONDecodeError) when the text is not exactly one JSON object
json_loads(text) ==
    IF Len(text) = 0 \/ text[1].t # "{" THEN ParseFail
    ELSE LET r == ParseMembers(text, 2, EmptyDict)
         IN  IF r.ok /\ r.next = Len(text) + 1 THEN r ELSE ParseFail

SetMin(S) == CHOOSE x \in S : \A y \in S : x <= y
SetMax(S) == CHOOSE x \in S : \A y \in S : x >= y

\* mutant: the pattern is lazy and stops at the first closing brace
re_search_lazy(response) ==
    LET opens == {i \in DOMAIN response : response[i].t = "{"}
    IN  IF opens = {} THEN [found |-> FALSE, group |-> <<>>]
        ELSE LET first  == SetMin(opens)
                 closes == {j \in DOMAIN response :
                               j > first /\ response[j].t = "}"}
             IN  IF closes = {} THEN [found |-> FALSE, group |-> <<>>]
                 ELSE [found |-> TRUE,
                       group |-> SubSeq(response, first, SetMin(closes))]

\* re.search(r'\{.*\}', response, re.DOTALL): from the first opening brace
\* that has a closing brace after it to the last closing brace
re_search(response) ==
    LET opens == {i \in DOMAIN response : response[i].t = "{"}
    IN  IF opens = {} THEN [found |-> FALSE, group |-> <<>>]
        ELSE LET first  == SetMin(opens)
                 closes == {j \in DOMAIN response :
                               j > first /\ response[j].t = "}"}
             IN  IF closes = {} THEN [found |-> FALSE, group |-> <<>>]
                 ELSE [found |-> TRUE,
                       group |-> SubSeq(response, first, SetMax(closes))]

\* f"Erro ao processar resposta da IA: {str(e)}"
ErroAnalise(e) ==
    IF e = "AttributeError"
    THEN "'Erro ao processar resposta da IA: 'NoneType' object has no attribute 'group''"
    ELSE "'Erro ao processar resposta da IA: Expecting property name enclosed in double quotes'"

\* mutant: the fallback verdict is labelled as an error
fallback_erro(e) ==
    [veredito   |-> "'ERRO'",
     analise    |-> ErroAnalise(e),
     confianca  |-> "0",
     evidencias |-> "[]"]

\* verify_claim: the record built in the `except Exception as e` branch
fallback(e) ==
    [veredito   |-> "'[INCONCLUSIVO]'",
     analise    |-> ErroAnalise(e),
     confianca  |-> "0",
     evidencias |-> "[]"]

\* verify_claim, "Parse JSON from response": the result for an LLM response
parse_response(response) ==
    LET m == re_search(response)
    IN  IF ~m.found THEN fallback("AttributeError")
        ELSE LET r == json_loads(m.group)
             IN  IF r.ok THEN r.dict ELSE fallback("JSONDecodeError")

\* the JSON object the prompt asks for, with verdict v
VerdictObject(v) ==
    <<Open, Key("veredito"), Val(v), Key("analise"), Val("'x'"),
      Key("confianca"), Val("10"), Key("evidencias"), Val("[]"), Close>>

\* the LLM responses of the model: a body, which may or may not be a JSON
\* object, between a prefix and a suffix of prose or fencing
ReplyBodies ==
    {VerdictObject(v) : v \in {"'[FALSO]'", "'[INCONCLUSIVO]'", "'talvez'"}}
    \cup {<<>>,
          <<Open, Close>>,
          <<Open, Key("veredito"), Val("'[VERDADEIRO]'"), Close>>,
          <<Open, Key("veredito"), Val("'[FALSO]'"),
            Key("fontes"), Open, Key("n"), Val("2"), Close, Close>>,
          <<Open, Key("veredito"), Close>>,
          <<Open, Txt, Close>>,
          <<Open, Key("veredito"), Val("'[FALSO]'")>>}
ReplyPrefixes == {<<>>, <<Fence>>, <<Txt>>, <<Txt, Open, Txt, Close, Txt>>}
ReplySuffixes == {<<>>, <<Fence>>, <<Txt>>, <<Txt, Close>>}
Replies == {p \o b \o q : p \in ReplyPrefixes, b \in ReplyBodies, q \in ReplySuffixes}

ClaimTexts == {"claim A", "claim B"}

\* retry_api(max_retries=3, ...), as applied to verify_claim
retry_max_retries == 3

\* the exceptions a run of the verify_claim body can raise (retriever,
\* embedding or LLM failure): a rate-limit error, whose message contains
\* "429" or "RESOURCE_EXHAUSTED", or any other error
RateLimitErrors == {"429", "RESOURCE_EXHAUSTED"}
ChainErrors == RateLimitErrors \cup {"other"}

\* mutant: every error is taken for a rate-limit error
is_rate_limit_any(e) == TRUE

\* retry_api: `"429" in str(e) or "RESOURCE_EXHAUSTED" in str(e)`
is_rate_limit(e) == e \in RateLimitErrors

\* mutant: the loop runs once more
in_retry_loop_extra(retries) == retries <= retry_max_retries

\* retry_api: `while retries < max_retries`
in_retry_loop(retries) == retries < retry_max_retries

\* mutant: the first error of any kind is raised
retry_api_no_retry(retries, e) ==
    [retries |-> IF in_retry_loop(retries) THEN retries + 1 ELSE retries,
     sleeps  |-> FALSE,
     raises  |-> TRUE]

\* retry_api, when the wrapped function raises e: inside the loop retries is
\* incremented and a rate-limit error is slept on and retried, any other
\* error raised; the call after the loop is not guarded
retry_api(retries, e) ==
    IF in_retry_loop(retries)
    THEN [retries |-> retries + 1,
          sleeps  |-> is_rate_limit(e),
          raises  |-> ~is_rate_limit(e)]
    ELSE [retries |-> retries, sleeps |-> FALSE, raises |-> TRUE]

\* runs counts the invocations of the wrapped body, rate_fails those that
\* raised a rate-limit error, sleeps the time.sleep calls of the wrapper
IdleVerify ==
    [pc |-> "idle", claim |-> "", retries |-> 0, runs |-> 0, hist0 |-> 0,
     response |-> <<>>, result |-> EmptyDict, error |-> None, saved |-> FALSE,
     rate_fails |-> 0, sleeps |-> 0]

\* the limit arguments get_history is called with (20 is the default)
HistoryLimits == {0, 1, 20}

NoView == [called |-> FALSE, limit |-> 0, entries |-> <<>>]

\* entries[-limit:] of Python: the last limit entries, and for limit = 0 the
\* slice entries[0:], which is the whole list
LastEntries(entries, limit) ==
    IF limit = 0 \/ limit >= Len(entries) THEN entries
    ELSE SubSeq(entries, Len(entries) - limit + 1, Len(entries))

\* FactVerificationEngine.get_history: every line of the history file, read
\* in file order, cut to the most recent ones
get_history(h, limit) == LastEntries(h, limit)

VerInit ==
    /\ history = <<>>
    /\ vcall = IdleVerify
    /\ verified = 0
    /\ history_view = NoView

\* a caller invokes engine.verify_claim(claim)
VerifyStart(claim) ==
    /\ vcall.pc \in {"idle", "returned", "raised"}
    /\ verified < MaxVerify
    /\ verified' = verified + 1
    /\ vcall' = [IdleVerify EXCEPT !.pc = "running", !.claim = claim,
                                   !.hist0 = Len(history)]
    /\ history_view' = NoView
    /\ UNCHANGED history

\* one run of the verify_claim body raises e before a response is obtained;
\* retry_api retries a rate-limit error max_retries times and lets every
\* other error, and the error of the last run, through
BodyRaises(e) ==
    /\ vcall.pc = "running"
    /\ LET r == retry_api(vcall.retries, e)
       IN  vcall' = [vcall EXCEPT
                        !.retries = r.retries,
                        !.runs = @ + 1,
                        !.rate_fails = IF e \in RateLimitErrors THEN @ + 1 ELSE @,
                        !.sleeps = IF r.sleeps THEN @ + 1 ELSE @,
                        !.pc = IF r.raises THEN "raised" ELSE @,
                        !.error = IF r.raises THEN e ELSE @]
    /\ history_view' = NoView
    /\ UNCHANGED <<history, verified>>

\* mutant: the history file is opened for writing instead of appending
save_to_history_truncate(h, claim, result, write_ok) ==
    IF write_ok THEN <<[claim |-> claim, result |-> result]>> ELSE h

\* _save_to_history: the file with the entry appended, or unchanged when
\* the write fails (the exception is logged and swallowed)
save_to_history(h, claim, result, write_ok) ==
    IF write_ok THEN Append(h, [claim |-> claim, result |-> result]) ELSE h

\* one run of the verify_claim body gets the LLM response, parses it, saves
\* the result to the history and returns it
BodyReturns(response, write_ok) ==
    /\ vcall.pc = "running"
    /\ LET result == parse_response(response)
       IN  /\ history' = save_to_history(history, vcall.claim, result, write_ok)
           /\ vcall' = [vcall EXCEPT !.pc = "returned", !.runs = @ + 1,
                                     !.response = response,
                                     !.result = result, !.saved = write_ok]
    /\ history_view' = NoView
    /\ UNCHANGED verified

\* a caller invokes FactVerificationEngine.get_history(limit); the result of
\* a verify_claim call that finished before has been handed to its caller
GetHistory(limit) ==
    /\ history_view' = [called |-> TRUE, limit |-> limit,
                        entries |-> get_history(history, limit)]
    /\ vcall' = IF vcall.pc = "running" THEN vcall ELSE IdleVerify
    /\ UNCHANGED <<history, verified>>

VerNext ==
    \/ \E claim \in ClaimTexts :
          VerifyStart(claim) /\ UNCHANGED restOfVerify
    \/ \E e \in ChainErrors :
          BodyRaises(e) /\ UNCHANGED restOfVerify
    \/ \E response \in Replies, write_ok \in BOOLEAN :
          BodyReturns(response, write_ok) /\ UNCHANGED restOfVerify
    \/ \E limit \in HistoryLimits :
          GetHistory(limit) /\ UNCHANGED restOfVerify

VerIdle ==
    /\ history = <<>>
    /\ vcall = IdleVerify
    /\ verified = 0
    /\ history_view = NoView

\* ------------------------------------------------------------------------
\* modules/analysis/detector.py : NewsDetector
\* ------------------------------------------------------------------------
\* NewsDetector.MAX_CONCURRENCY
MAX_CONCURRENCY == 3

\* the limit arguments run_batch_analysis is called with (5 is the default)
AnalysisLimits == {1, 2, 5}

\* A line of the reference file is an article, named by the number its URL
\* ends with, or a line that is not a valid NewsArticle.
Malformed == 0

IdSeq(from, to) == [i \in 1..(to - from + 1) |-> from + i - 1]

\* the reference files of the model: articles with distinct URLs, and one
\* file with a malformed line after the first article
ReferenceFiles ==
    {IdSeq(1, n) : n \in 0..MaxArticles}
    \cup {<<1, Malformed>> \o IdSeq(2, MaxArticles)}

\* NewsDetector._load_data: the valid articles, in file order
load_data(file) == SelectSeq(file, LAMBDA a : a # Malformed)

\* NewsDetector._load_analyzed_urls
load_analyzed_urls(out) == {out[i].article : i \in DOMAIN out}

\* core/models.py: the fields of DetectionScores and of FakeNewsDetection
\* (timestamp has a default)
ScoreNames == {"factual_consistency", "linguistic_bias", "sensationalism",
               "source_credibility"}
DetectionKeys == {"is_fake", "confidence_score", "reasoning",
                  "detected_markers", "scores"}

\* DetectionScores(factual_consistency=5, linguistic_bias=5, ...)
MidScores == [n \in ScoreNames |-> 5]

\* a detection holds confidence_score in hundredths and reasoning as the
\* fragments the text is put together from; the text of an exception is
\* not told apart
NoDetection ==
    [is_fake |-> FALSE, confidence_score |-> 0, reasoning |-> <<>>,
     detected_markers |-> <<>>, scores |-> EmptyDict]

\* mutant: the sub-scores are not range-checked
DetectionScores_unbounded(scores) ==
    IF ScoreNames \subseteq DOMAIN scores
    THEN [ok |-> TRUE, scores |-> [n \in ScoreNames |-> scores[n]]]
    ELSE [ok |-> FALSE, scores |-> EmptyDict]

\* DetectionScores(**scores): four required integers with ge=0, le=10
DetectionScores(scores) ==
    IF /\ ScoreNames \subseteq DOMAIN scores
       /\ \A n \in ScoreNames : scores[n] >= 0 /\ scores[n] <= 10
    THEN [ok |-> TRUE, scores |-> [n \in ScoreNames |-> scores[n]]]
    ELSE [ok |-> FALSE, scores |-> EmptyDict]

\* FakeNewsDetection(**data): the validated detection, or a ValidationError
FakeNewsDetection(data) ==
    LET keys == DOMAIN data
        s    == IF "scores" \in keys THEN DetectionScores(data.scores)
                ELSE [ok |-> FALSE, scores |-> EmptyDict]
    IN  IF DetectionKeys \subseteq keys /\ s.ok
        THEN [ok |-> TRUE,
              detection |-> [is_fake          |-> data.is_fake,
                             confidence_score |-> data.confidence_score,
                             reasoning        |-> data.reasoning,
                             detected_markers |-> data.detected_markers,
                             scores           |-> s.scores]]
        ELSE [ok |-> FALSE, detection |-> NoDetection]

\* mutant: the fallback record carries zero sub-scores
fallback_detection_zero(e) ==
    [is_fake |-> FALSE, confidence_score |-> 0,
     reasoning |-> <<"Error during analysis: ", "str(e)">>,
     detected_markers |-> <<>>,
     scores |-> [n \in ScoreNames |-> 0]]

\* analyze_article: the record built in the `except Exception as e` branch
fallback_detection(e) ==
    [is_fake |-> FALSE, confidence_score |-> 0,
     reasoning |-> <<"Error during analysis: ", "str(e)">>,
     detected_markers |-> <<>>,
     scores |-> MidScores]

\* what generate_content does: it raises, or its response.text is JSON text
\* of the object data, or text that is not JSON
BackendError    == [raises |-> TRUE,  json |-> FALSE, data |-> EmptyDict]
NotJson         == [raises |-> FALSE, json |-> FALSE, data |-> EmptyDict]
JsonReply(data) == [raises |-> FALSE, json |-> TRUE,  data |-> data]

\* the object the prompt asks for, with the given sub-scores
DetectionObject(scores) ==
    [is_fake |-> TRUE, confidence_score |-> 90,
     reasoning |-> <<"Sensationalist headline.">>,
     detected_markers |-> <<"sensationalist headline">>,
     scores |-> scores]

InRangeScores ==
    [factual_consistency |-> 0, linguistic_bias |-> 7,
     sensationalism |-> 10, source_credibility |-> 4]

\* the backend replies of the runs that overlap: a failure or a valid object
OverlapReplies == {BackendError, JsonReply(DetectionObject(InRangeScores))}

\* the backend replies of the model
AnalysisReplies ==
    {BackendError, NotJson,
     JsonReply(DetectionObject(InRangeScores)),
     JsonReply(DetectionObject([InRangeScores EXCEPT !.sensationalism = 11])),
     JsonReply(DetectionObject([InRangeScores EXCEPT !.factual_consistency = -1])),
     JsonReply(DetectionObject([linguistic_bias |-> 7, sensationalism |-> 9])),
     JsonReply([is_fake |-> TRUE, reasoning |-> <<"No scores.">>])}

\* NewsDetector.analyze_article, from the backend's reply on
analyze_article(reply) ==
    IF reply.raises THEN fallback_detection("backend error")
    ELSE IF ~reply.json THEN fallback_detection("JSONDecodeError")
    ELSE LET v == FakeNewsDetection(reply.data)
         IN  IF v.ok THEN v.detection
             ELSE fallback_detection("ValidationError")

NoAnalysis == [called |-> FALSE, reply |-> NotJson, detection |-> NoDetection]

IdleRun == [pc |-> "idle", limit |-> 0, new_articles |-> <<>>,
            written |-> <<>>]

\* mutant: the limit is ignored
targets_all(new_articles, limit) == new_articles

\* new_articles[:limit], for a limit that is not negative
targets(new_articles, limit) ==
    SubSeq(new_articles, 1,
           IF limit < Len(new_articles) THEN limit ELSE Len(new_articles))

\* mutant: the records of failed analyses are not written
save_drop_fallbacks(out, results) ==
    out \o SelectSeq(results, LAMBDA r : r.detection.reasoning[1]
                                            # "Error during analysis: ")

\* NewsDetector._save: the results appended to the output file
save(out, results) == out \o results

AnaInit ==
    /\ reference_file \in ReferenceFiles
    /\ analysis_file = <<>>
    /\ runs = EmptyBag
    /\ finished_run = IdleRun
    /\ last_analysis = NoAnalysis
    /\ runs_started = 0

\* run_batch_analysis(limit), up to `await asyncio.gather(*tasks)` or to one
\* of its early returns
StartRun(limit) ==
    LET articles     == load_data(reference_file)
        analyzed     == load_analyzed_urls(analysis_file)
        new_articles == SelectSeq(articles, LAMBDA a : a \notin analyzed)
        chosen       == targets(new_articles, limit)
        early        == [pc |-> "returned", limit |-> limit,
                         new_articles |-> new_articles, written |-> <<>>]
    IN  /\ IF Len(articles) = 0 \/ Len(new_articles) = 0
           THEN /\ finished_run' = early
                /\ UNCHANGED runs
           ELSE /\ runs' = runs (+) SetToBag({
                      [limit |-> limit, new_articles |-> new_articles,
                       tasks |-> [i \in DOMAIN chosen |->
                                    [article |-> chosen[i], st |-> "waiting",
                                     detection |-> NoDetection]]]})
                /\ finished_run' = IdleRun
        /\ last_analysis' = NoAnalysis
        /\ UNCHANGED <<reference_file, analysis_file>>

Running(run) == {i \in DOMAIN run.tasks : run.tasks[i].st = "running"}

\* mutant: the semaphore lets every task in
sem_acquire_unbounded(run) == TRUE

\* asyncio.Semaphore(MAX_CONCURRENCY): `async with sem` is entered only
\* while fewer than MAX_CONCURRENCY tasks of the run hold it
sem_acquire(run) == Cardinality(Running(run)) < MAX_CONCURRENCY

\* _analyze_with_semaphore: the next task of the run enters `async with sem`
\* and calls analyze_article.  The call and its return are separate steps,
\* which covers every interleaving the event loop and the scheduler thread
\* can produce between them.
TaskBegin(run) ==
    /\ BagIn(run, runs)
    /\ sem_acquire(run)
    /\ \E i \in DOMAIN run.tasks :
          /\ run.tasks[i].st = "waiting"
          /\ \A j \in 1..(i - 1) : run.tasks[j].st # "waiting"
          /\ runs' = (runs (-) SetToBag({run})) (+) SetToBag({
                [run EXCEPT !.tasks[i].st = "running"]})
    /\ finished_run' = IdleRun
    /\ last_analysis' = NoAnalysis
    /\ UNCHANGED <<reference_file, analysis_file, runs_started>>

\* the analyze_article call of task i gets the backend's reply and returns;
\* the task leaves `async with sem`
TaskEnd(run, i, reply) ==
    /\ BagIn(run, runs)
    /\ i \in Running(run)
    /\ LET detection == analyze_article(reply)
       IN  /\ runs' = (runs (-) SetToBag({run})) (+) SetToBag({
                  [run EXCEPT !.tasks[i].st = "done",
                              !.tasks[i].detection = detection]})
           /\ last_analysis' = [called |-> TRUE, reply |-> reply,
                                detection |-> detection]
    /\ finished_run' = IdleRun
    /\ UNCHANGED <<reference_file, analysis_file, runs_started>>

\* asyncio.gather has every result: run_batch_analysis saves them and returns
FinishRun(run) ==
    /\ BagIn(run, runs)
    /\ \A i \in DOMAIN run.tasks : run.tasks[i].st = "done"
    /\ LET results == [i \in DOMAIN run.tasks |->
                          [article   |-> run.tasks[i].article,
                           detection |-> run.tasks[i].detection]]
       IN  /\ analysis_file' = save(analysis_file, results)
           /\ finished_run' = [pc |-> "returned", limit |-> run.limit,
                               new_articles |-> run.new_articles,
                               written |-> results]
    /\ runs' = runs (-) SetToBag({run})
    /\ last_analysis' = NoAnalysis
    /\ UNCHANGED <<reference_file, runs_started>>

\* the steps of the runs in progress, with the backend's replies drawn from
\* replies
RunSteps(replies) ==
    \/ \E run \in BagToSet(runs) : TaskBegin(run) /\ UNCHANGED restOfAnalysis
    \/ \E run \in BagToSet(runs), reply \in replies :
          \E i \in Running(run) :
             TaskEnd(run, i, reply) /\ UNCHANGED restOfAnalysis
    \/ \E run \in BagToSet(runs) : FinishRun(run) /\ UNCHANGED restOfAnalysis

\* runs are started at any time (the scheduled job, the API, the CLI)
StartOverlapping(limit) ==
    /\ runs_started < MaxRuns
    /\ runs_started' = runs_started + 1
    /\ StartRun(limit)

\* a run is started when no other run is in progress
StartAlone(limit) ==
    /\ runs = EmptyBag
    /\ StartRun(limit)
    /\ UNCHANGED runs_started

AnaNext ==
    \/ \E limit \in AnalysisLimits :
          StartOverlapping(limit) /\ UNCHANGED restOfAnalysis
    \/ RunSteps(OverlapReplies)

AnaSeqNext ==
    \/ \E limit \in AnalysisLimits :
          StartAlone(limit) /\ UNCHANGED restOfAnalysis
    \/ RunSteps(AnalysisReplies)

AnaIdle ==
    /\ reference_file = <<>>
    /\ analysis_file = <<>>
    /\ runs = EmptyBag
    /\ finished_run = IdleRun
    /\ last_analysis = NoAnalysis
    /\ runs_started = 0

\* ------------------------------------------------------------------------
\* modules/detection/verification_engine.py : index_documents
\* ------------------------------------------------------------------------
\* VerificationDatabase.add_articles(articles, batch_size=5)
batch_size == 5

\* the reference files index_documents is run on: those of the analysis,
\* and one that takes two batches
IndexFiles == ReferenceFiles \cup {IdSeq(1, batch_size + 1)}

\* what makes store.add_documents raise: the embedding request of the batch
\* or the write to the collection
IndexErrors == {"embedding", "storing"}

IdleIndex == [pc |-> "idle", articles |-> <<>>, next |-> 1, failed |-> 0,
              error |-> None]

\* docs[i:i + batch_size]
Batch(docs, i) ==
    SubSeq(docs, i, IF i + batch_size - 1 < Len(docs)
                    THEN i + batch_size - 1 ELSE Len(docs))

IdxInit ==
    /\ reference_file \in IndexFiles
    /\ vector_store = <<>>
    /\ index_call = IdleIndex
    /\ index_runs = 0

\* index_documents, up to the first batch of add_articles: the valid
\* articles are read; with none the call returns, otherwise the store is
\* cleared
IndexStart ==
    /\ index_call.pc \in {"idle", "returned", "raised"}
    /\ index_runs < MaxIndexRuns
    /\ index_runs' = index_runs + 1
    /\ LET articles == load_data(reference_file)
       IN  IF Len(articles) = 0
           THEN /\ index_call' = [IdleIndex EXCEPT !.pc = "returned"]
                /\ UNCHANGED vector_store
           ELSE /\ index_call' = [IdleIndex EXCEPT !.pc = "adding",
                                                   !.articles = articles]
                /\ vector_store' = <<>>
    /\ UNCHANGED reference_file

\* store.add_documents(batch) embeds and stores the next batch; after the
\* last batch index_documents returns
BatchAdded ==
    /\ index_call.pc = "adding"
    /\ LET batch == Batch(index_call.articles, index_call.next)
           next  == index_call.next + batch_size
       IN  /\ vector_store' = vector_store \o batch
           /\ index_call' =
                 [index_call EXCEPT !.next = next,
                                    !.pc = IF next > Len(index_call.articles)
                                           THEN "returned" ELSE "adding"]
    /\ UNCHANGED <<reference_file, index_runs>>

\* store.add_documents(batch) raises because the embedding or the storing
\* of article a of the batch fails: nothing of the batch is stored and the
\* exception leaves add_articles and index_documents
BatchFails(a, e) ==
    /\ index_call.pc = "adding"
    /\ InSeq(a, Batch(index_call.articles, index_call.next))
    /\ index_call' = [index_call EXCEPT !.pc = "raised", !.failed = a,
                                        !.error = e]
    /\ UNCHANGED <<reference_file, vector_store, index_runs>>

IdxNext ==
    \/ IndexStart /\ UNCHANGED restOfIndexing
    \/ BatchAdded /\ UNCHANGED restOfIndexing
    \/ \E a \in 1..(batch_size + 1), e \in IndexErrors :
          BatchFails(a, e) /\ UNCHANGED restOfIndexing

IdxIdle ==
    /\ vector_store = <<>>
    /\ index_call = IdleIndex
    /\ index_runs = 0

\* ------------------------------------------------------------------------
\* core/llm/embedding_adapter.py : adapt_embedding
\* ------------------------------------------------------------------------
\* the entries of the vectors; 0 stands for 0.0
Components == {0, 1, 2}

\* the vectors of at most n entries
Vectors(n) == UNION {[1..k -> Components] : k \in 0..n}

\* mutant: the zeros are put in front
pad_front(embedding, padding_size) ==
    [i \in 1..padding_size |-> 0] \o embedding

\* `embedding + [0.0] * padding_size`
pad(embedding, padding_size) ==
    embedding \o [i \in 1..padding_size |-> 0]

\* mutant: the last target_dims entries are kept
truncate_tail(embedding, target_dims) ==
    SubSeq(embedding, Len(embedding) - target_dims + 1, Len(embedding))

\* `embedding[:target_dims]`
truncate(embedding, target_dims) == SubSeq(embedding, 1, target_dims)

adapt_embedding(embedding, target_dims) ==
    LET current_dims == Len(embedding)
    IN  IF current_dims = target_dims THEN embedding
        ELSE IF current_dims < target_dims
        THEN pad(embedding, target_dims - current_dims)
        ELSE truncate(embedding, target_dims)

AdpInit ==
    /\ adapter_input \in Vectors(MaxDims)
    /\ adapter_target \in 0..(MaxDims + 1)
    /\ adapted = <<>>

\* adapt_embedding is applied to the input, and then to its own result
Adapt ==
    /\ Len(adapted) < 2
    /\ adapted' = Append(adapted,
                     adapt_embedding(IF Len(adapted) = 0 THEN adapter_input
                                     ELSE adapted[Len(adapted)],
                                     adapter_target))
    /\ UNCHANGED <<adapter_input, adapter_target>>

AdpNext == Adapt /\ UNCHANGED restOfAdapter

AdpIdle ==
    /\ adapter_input = <<>>
    /\ adapter_target = 0
    /\ adapted = <<>>

\* ------------------------------------------------------------------------
\* server.py : the API-key dependency of the HTTP endpoints
\* ------------------------------------------------------------------------
\* the values of the VORTEX_API_KEY environment variable ("" when unset)
ServerKeys == {"", "test-secret-key"}

\* the X-API-Key header of a request; None when the header is absent
HeaderValues == {None, "", "test-secret-key", "wrong"}

ProtectedEndpoints == {"/api/status", "/api/verify", "/api/history"}
PublicEndpoints    == {"/health", "/"}
Endpoints          == ProtectedEndpoints \cup PublicEndpoints

\* the endpoints declared with auth=Depends(verify_api_key)
depends_on_auth(endpoint) == endpoint \in ProtectedEndpoints

\* mutant: the header is compared even when no key is configured
verify_api_key_strict(x_api_key, key) == x_api_key = key

\* verify_api_key: TRUE when it returns, FALSE when it raises
\* HTTPException(401)
verify_api_key(x_api_key, key) ==
    IF key = "" THEN TRUE
    ELSE IF x_api_key # key THEN FALSE
    ELSE TRUE

NoRequest  == [endpoint |-> None, x_api_key |-> None]
NoResponse == [status_code |-> 0, body_ran |-> FALSE]

\* the handling of one request that is within the size and rate limits: the
\* dependencies of the route are resolved first and an HTTPException of
\* theirs is the response; otherwise the endpoint body runs and answers
\* with body_status
handle(endpoint, x_api_key, key, body_status) ==
    IF depends_on_auth(endpoint) /\ ~verify_api_key(x_api_key, key)
    THEN [status_code |-> 401, body_ran |-> FALSE]
    ELSE [status_code |-> body_status, body_ran |-> TRUE]

\* the status codes an endpoint body answers with
BodyStatus(endpoint) ==
    IF endpoint \in ProtectedEndpoints THEN {200, 500} ELSE {200}

SrvInit ==
    /\ VORTEX_API_KEY \in ServerKeys
    /\ http_request = NoRequest
    /\ http_response = NoResponse
    /\ requests_made = 0

HandleRequest(endpoint, x_api_key, body_status) ==
    /\ requests_made < MaxRequests
    /\ requests_made' = requests_made + 1
    /\ http_request' = [endpoint |-> endpoint, x_api_key |-> x_api_key]
    /\ http_response' = handle(endpoint, x_api_key, VORTEX_API_KEY, body_status)
    /\ UNCHANGED VORTEX_API_KEY

SrvNext ==
    \E endpoint \in Endpoints, x_api_key \in HeaderValues :
       \E body_status \in BodyStatus(endpoint) :
          HandleRequest(endpoint, x_api_key, body_status)
             /\ UNCHANGED restOfServer

SrvIdle ==
    /\ VORTEX_API_KEY = ""
    /\ http_request = NoRequest
    /\ http_response = NoResponse
    /\ requests_made = 0

\* ------------------------------------------------------------------------
\* scheduler.py : job_collect_and_analyze, and main.py : full-pipeline
\* ------------------------------------------------------------------------
\* collection, analysis and indexing say how far each stage got in the run:
\* "none", "created" (a coroutine object was made and not run), "running",
\* "done" or "raised"; propagated says that an exception left the pipeline
IdlePipeline ==
    [kind |-> None, pc |-> "idle", collection |-> "none", analysis |-> "none",
     indexing |-> "none", propagated |-> FALSE]

PlInit ==
    /\ pipeline = IdlePipeline
    /\ pipeline_log = <<>>

\* the scheduler fires job_collect_and_analyze ("job"), or main runs the
\* full-pipeline command ("cli")
PipelineStart(kind) ==
    /\ pipeline.pc \in {"idle", "finished"}
    /\ Len(pipeline_log) + (IF pipeline.pc = "finished" THEN 1 ELSE 0)
          < MaxPipelines
    /\ pipeline_log' = IF pipeline.pc = "finished"
                       THEN Append(pipeline_log, pipeline) ELSE pipeline_log
    /\ pipeline' = [IdlePipeline EXCEPT !.kind = kind, !.pc = "collect"]

\* `run_collector()`: run_collector is a coroutine function, so the call
\* only makes a coroutine object; nothing awaits it or hands it to
\* asyncio.run, and the next statement follows
CollectStage ==
    /\ pipeline.pc = "collect"
    /\ pipeline' = [pipeline EXCEPT !.collection = "created", !.pc = "analyze"]
    /\ UNCHANGED pipeline_log

\* `asyncio.run(NewsDetector().run_batch_analysis(...))` is entered
AnalyzeStage ==
    /\ pipeline.pc = "analyze"
    /\ pipeline' = [pipeline EXCEPT !.analysis = "running", !.pc = "analyzing"]
    /\ UNCHANGED pipeline_log

\* `FactVerificationEngine().index_documents()` is entered
IndexStage ==
    /\ pipeline.pc = "index"
    /\ pipeline' = [pipeline EXCEPT !.indexing = "running", !.pc = "indexing"]
    /\ UNCHANGED pipeline_log

\* the stage in progress returns (ok) or raises: the statements run one
\* after the other, so a return leads to the next stage; an exception ends
\* the run, caught and logged by the job's `except Exception`, or leaving
\* the loop over the steps of the full-pipeline command
StageEnds(ok) ==
    /\ pipeline.pc \in {"analyzing", "indexing"}
    /\ LET out == IF ok THEN "done" ELSE "raised"
           end == [pipeline EXCEPT
                     !.pc = IF ok /\ pipeline.pc = "analyzing"
                            THEN "index" ELSE "finished",
                     !.propagated = ~ok /\ pipeline.kind = "cli"]
       IN  pipeline' = IF pipeline.pc = "analyzing"
                       THEN [end EXCEPT !.analysis = out]
                       ELSE [end EXCEPT !.indexing = out]
    /\ UNCHANGED pipeline_log

PlNext ==
    \/ \E kind \in {"job", "cli"} :
          PipelineStart(kind) /\ UNCHANGED restOfPipeline
    \/ CollectStage /\ UNCHANGED restOfPipeline
    \/ AnalyzeStage /\ UNCHANGED restOfPipeline
    \/ IndexStage /\ UNCHANGED restOfPipeline
    \/ \E ok \in BOOLEAN : StageEnds(ok) /\ UNCHANGED restOfPipeline

\* the parts outside the manager that a specification does not exercise
OthersIdle == AdpIdle /\ SrvIdle /\ PlInit

Init == ProvIdle /\ MgrInit /\ VerIdle /\ AnaIdle /\ IdxIdle
        /\ OthersIdle
Next == MgrNext
Spec == Init /\ [][Next]_vars

\* the manager when every provider invocation returns or raises: an
\* awaited provider call in flight is eventually answered
BackendAnswers ==
    /\ \E cr \in BagToSet(calls) :
          \/ \E parseable \in BOOLEAN : BackendReplies(cr, parseable)
          \/ \E e \in {"transport", "ratelimit"} : BackendFails(cr, e)
    /\ UNCHANGED restOfCalls

InitTermination == Init
NextTermination == MgrNext
SpecTermination ==
    InitTermination /\ [][NextTermination]_vars /\ WF_vars(BackendAnswers)

\* the manager in priority mode over a pool of two providers, under
\* concurrent generate_text callers; MaxPriorityInvocations provider
\* invocations are followed (the counter starts that far below its cap)
MgrInitPriority ==
    /\ load_balance = FALSE
    /\ current_provider_index = 0
    /\ enabled_providers = <<"gemini", "groq">>
    /\ llm_providers = Constructed(enabled_providers, [n \in Names |-> "key"])
    /\ embedding_providers = SelectSeq(llm_providers, IsEmbeddingProvider)
    /\ providers = [n \in Names |-> NewProvider("key")]
    /\ calls = EmptyBag
    /\ outcome = IdleCall
    /\ invocations = MaxInvocations - MaxPriorityInvocations
    /\ status_view = NoStatus
    /\ served = <<>>

InitPriority == ProvIdle /\ MgrInitPriority /\ VerIdle /\ AnaIdle /\ IdxIdle
                /\ OthersIdle
NextPriority ==
    \/ \E r \in BOOLEAN :
          StartCall("generate_text", r) /\ UNCHANGED restOfCalls
    \/ \E cr \in BagToSet(calls) :
          BackendReplies(cr, TRUE) /\ UNCHANGED restOfCalls
    \/ \E cr \in BagToSet(calls) :
          BackendFails(cr, "transport") /\ UNCHANGED restOfCalls
SpecPriority == InitPriority /\ [][NextPriority]_vars

InitProvider == ProvInit /\ MgrIdle /\ VerIdle /\ AnaIdle /\ IdxIdle
                /\ OthersIdle
NextProvider == ProvNext
SpecProvider == InitProvider /\ [][NextProvider]_vars

InitVerify == ProvIdle /\ MgrIdle /\ VerInit /\ AnaIdle /\ IdxIdle
              /\ OthersIdle
NextVerify == VerNext
SpecVerify == InitVerify /\ [][NextVerify]_vars

\* manager calls made one after the other, with get_status calls in between
InitManagerSeq == ProvIdle /\ MgrInit /\ VerIdle /\ AnaIdle /\ IdxIdle
                  /\ OthersIdle
NextManagerSeq == MgrSeqNext
SpecManagerSeq == InitManagerSeq /\ [][NextManagerSeq]_vars

\* manager calls made one after the other with load balancing on, all of
\* them succeeding
InitBalanced == InitManagerSeq /\ load_balance
NextBalanced == MgrHealthyNext
SpecBalanced == InitBalanced /\ [][NextBalanced]_vars

\* provider calls, one after the other
InitProviderCalls == InitProvider
NextProviderCalls == ProvCallNext
SpecProviderCalls == InitProviderCalls /\ [][NextProviderCalls]_vars

\* OpenAIProvider calls, one after the other
SpecOpenAI == InitProvider /\ [][OpenAINext]_vars

\* adapt_embedding applied to any vector and target
InitAdapter ==
    ProvIdle /\ MgrIdle /\ VerIdle /\ AnaIdle /\ IdxIdle /\ AdpInit /\ SrvIdle
       /\ PlInit
NextAdapter == AdpNext
SpecAdapter == InitAdapter /\ [][NextAdapter]_vars

\* HTTP requests handled one after the other
InitServer ==
    ProvIdle /\ MgrIdle /\ VerIdle /\ AnaIdle /\ IdxIdle /\ AdpIdle /\ SrvInit
       /\ PlInit
NextServer == SrvNext
SpecServer == InitServer /\ [][NextServer]_vars

\* pipeline runs, one after the other
InitPipeline == ProvIdle /\ MgrIdle /\ VerIdle /\ AnaIdle /\ IdxIdle
                /\ OthersIdle
SpecPipeline == InitPipeline /\ [][PlNext]_vars

\* run_batch_analysis runs that may overlap
InitAnalysis == ProvIdle /\ MgrIdle /\ VerIdle /\ AnaInit /\ IdxIdle
                /\ OthersIdle
NextAnalysis == AnaNext
SpecAnalysis == InitAnalysis /\ [][NextAnalysis]_vars

\* index_documents calls, one after the other
AnaIdleButFile ==
    /\ analysis_file = <<>>
    /\ runs = EmptyBag
    /\ finished_run = IdleRun
    /\ last_analysis = NoAnalysis
    /\ runs_started = 0

InitIndex == ProvIdle /\ MgrIdle /\ VerIdle /\ AnaIdleButFile /\ IdxInit
             /\ OthersIdle
NextIndex == IdxNext
SpecIndex == InitIndex /\ [][NextIndex]_vars

\* run_batch_analysis runs repeated one after the other for ever; every
\* backend request is answered and a run that can go on does
NextAnalysisSeq == AnaSeqNext
SpecAnalysisSeq ==
    InitAnalysis /\ [][NextAnalysisSeq]_vars /\ WF_vars(NextAnalysisSeq)

\* ------------------------------------------------------------------------
\* Properties of the provider health state (SpecProvider)
\* ------------------------------------------------------------------------
\* C4: three mark_failure calls in a row with no mark_success in between
\* leave the provider unavailable; a mark_success sets the consecutive-error
\* counter to zero and the status to ACTIVE; and a provider that holds a
\* credential and has seen fewer than three failures since its last success
\* (or since its construction with a key) is available.
C4_HealthTransition ==
    /\ consec >= 3 => ~is_available(prov)
    /\ last_op = "mark_success" =>
          prov.error_count = 0 /\ prov.status = "ACTIVE"
    /\ ( /\ prov.api_key # None
         /\ (prov.success_count > 0 \/ ~Falsy(prov.api_key))
         /\ consec < 3 ) => is_available(prov)

\* a provider that succeeded, then failed three times in a row
W_C4_ThreeFailuresAfterSuccess ==
    /\ prov.api_key = "key"
    /\ prov.success_count >= 1
    /\ consec = 3
    /\ prov.status = "FAILED"

\* C19: is_available() is true exactly when the status is ACTIVE and a
\* credential is configured; a provider constructed without a credential
\* (None or the empty string) starts DISABLED and is never available,
\* whatever mark_success and mark_failure calls follow.
C19_AvailableIffActiveWithCredential ==
    /\ is_available(prov) <=> (prov.status = "ACTIVE" /\ ~Falsy(prov.api_key))
    /\ (Falsy(prov.api_key) /\ marks = 0) => prov.status = "DISABLED"
    /\ Falsy(prov.api_key) => ~is_available(prov)

\* ------------------------------------------------------------------------
\* Properties of the manager (Spec)
\* ------------------------------------------------------------------------
Finished(cr) == cr.pc \in {"returned", "raised"}

\* the call handed back in this state ran alone on a freshly constructed
\* manager: every provider call made so far was made by it
RanAlone == Finished(outcome) /\ invocations = Len(outcome.tried)

Last(seq) == seq[Len(seq)]

\* the providers whose call failed during the finished call cr
FailedIn(cr) ==
    {cr.tried[i] : i \in 1..(IF cr.pc = "returned" THEN Len(cr.tried) - 1
                                                  ELSE Len(cr.tried))}

\* the number of calls in flight on provider n
InFlightOn(n, bag) ==
    BagCardinality([cr \in {x \in BagToSet(bag) : x.provider = n} |-> bag[cr]])

\* C1: in a pool of N available providers of which all but the last fail
\* and the last succeeds, a manager call returns the last provider's result;
\* without load balancing it calls exactly providers 1..N in priority
\* order, with load balancing it calls at most N providers.
C1_FailoverReachesLast ==
    LET pool == PoolOf(outcome.op)
        N    == Len(pool)
    IN  ( /\ RanAlone
          /\ outcome.retry_all
          /\ N >= 1
          /\ pool[N] \notin FailedIn(outcome)
          /\ outcome.pc = "returned" => Last(outcome.tried) = pool[N] )
        => /\ outcome.pc = "returned"
           /\ outcome.result.from = pool[N]
           /\ ~load_balance => outcome.tried = pool
           /\ load_balance => Len(outcome.tried) <= N

\* C2: when every provider of a pool of N available providers fails during
\* one manager call, each of the N providers has been called exactly once
\* and the call raises the manager's own failure, which reports N attempts
\* and the last underlying error.
C2_AllFailExhaustive ==
    LET pool == PoolOf(outcome.op)
        N    == Len(pool)
    IN  ( /\ RanAlone
          /\ outcome.retry_all
          /\ N >= 1
          /\ outcome.pc = "raised" )
        => /\ Len(outcome.tried) = N
           /\ \A i \in 1..N : InSeq(pool[i], outcome.tried)
           /\ outcome.error.kind = "all_failed"
           /\ outcome.error.attempts = N
           /\ outcome.error.last = outcome.last_error

\* C3: every vector the manager's get_embedding returns has the target
\* dimensionality.
C3_EmbeddingHasTargetDims ==
    (outcome.pc = "returned" /\ outcome.op = "get_embedding")
        => Len(outcome.result.vector) = TARGET_DIMENSIONS

\* C5 as claimed: once a provider is FAILED its status stays FAILED and the
\* manager starts no further call on it.
C5_FailedIsPermanent ==
    [][\A n \in Names :
          providers[n].status = "FAILED" =>
             /\ providers'[n].status = "FAILED"
             /\ InFlightOn(n, calls') <= InFlightOn(n, calls)]_vars

\* C5 as amended: while a provider is FAILED the manager starts no new call
\* on it, and its status leaves FAILED only through the mark_success of a
\* provider call that was in flight on it, which makes it ACTIVE again.
C5_FailedUntilInFlightSuccess ==
    [][\A n \in Names :
          providers[n].status = "FAILED" =>
             /\ InFlightOn(n, calls') <= InFlightOn(n, calls)
             /\ providers'[n].status # "FAILED" =>
                   /\ InFlightOn(n, calls) >= 1
                   /\ InFlightOn(n, calls') = InFlightOn(n, calls) - 1
                   /\ providers'[n].success_count =
                         providers[n].success_count + 1
                   /\ providers'[n].status = "ACTIVE"]_vars

\* a provider has just become FAILED while another call is in flight on it
W_C5_FailedWithCallInFlight ==
    \E n \in Names :
       /\ providers[n].status = "FAILED"
       /\ InFlightOn(n, calls) >= 1
       /\ outcome.pc = "raised"
       /\ InSeq(n, outcome.tried)

\* C6: when a generate_json attempt fails on an unparseable reply, the
\* manager goes on to another available provider, as it would after a
\* transport failure: the call does not give up while an available provider
\* of the pool is still untried.
C6_ParseFailureFailsOver ==
    ( /\ outcome.pc = "raised"
      /\ outcome.retry_all
      /\ outcome.op = "generate_json"
      /\ outcome.last_error = "parse" )
    => ~\E i \in DOMAIN llm_providers :
           /\ is_available(providers[llm_providers[i]])
           /\ ~InSeq(llm_providers[i], outcome.tried)

\* the available providers of a pool that are not in tried, in pool order
AvailableUntried(pool, ps, tried) ==
    SelectSeq(pool, LAMBDA n : is_available(ps[n]) /\ ~InSeq(n, tried))

Front(seq) == SubSeq(seq, 1, Len(seq) - 1)

\* C20: with load balancing off, every provider the manager invokes is the
\* first available provider of the pool that the call has not tried yet,
\* and so is every selection: a call does not end on a selection that
\* returns a tried provider while an available, untried one is in the pool.
C20_SelectsFirstAvailableUntried ==
    [][~load_balance =>
         /\ \A cr \in BagToSet(calls') :
               CopiesIn(cr, calls') > CopiesIn(cr, calls) =>
                  LET fresh == AvailableUntried(PoolOf(cr.op), providers',
                                                Front(cr.tried))
                  IN  Len(fresh) > 0 /\ cr.provider = fresh[1]
         /\ (outcome'.pc = "raised" /\ outcome'.error.kind = "all_failed") =>
               Len(AvailableUntried(PoolOf(outcome'.op), providers',
                                    outcome'.tried)) = 0]_vars

\* ------------------------------------------------------------------------
\* Properties of verify_claim (SpecVerify)
\* ------------------------------------------------------------------------
VerdictKeys == {"veredito", "analise", "confianca", "evidencias"}

\* the closed verdict vocabulary of the Verification record
VerdictLabels ==
    {"'[VERDADEIRO]'", "'[FALSO]'", "'[PARCIALMENTE VERDADEIRO]'",
     "'[INCONCLUSIVO]'", "'ERRO'"}

\* the history entry of the verify_claim call in vcall
EntryOf(v) == [claim |-> v.claim, result |-> v.result]

\* no part of the response is the text of a JSON object
NoParseableObject(response) ==
    \A i, j \in DOMAIN response :
       (i <= j /\ response[i].t = "{" /\ response[j].t = "}")
          => ~json_loads(SubSeq(response, i, j)).ok

\* C7: verify_claim never raises and always returns a record that has the
\* keys veredito, analise, confianca and evidencias.
C7_AlwaysWellFormedVerdict ==
    /\ vcall.pc # "raised"
    /\ vcall.pc = "returned" => VerdictKeys \subseteq DOMAIN vcall.result

C9_VerdictInEnumeration ==
    /\ (vcall.pc = "returned" /\ "veredito" \in DOMAIN vcall.result)
          => vcall.result.veredito \in VerdictLabels
    /\ \A i \in DOMAIN history :
          "veredito" \in DOMAIN history[i].result
             => history[i].result.veredito \in VerdictLabels

\* C10: when the LLM response contains no parseable JSON object,
\* verify_claim returns the record with veredito [INCONCLUSIVO],
\* confianca 0, no evidencias and an analise that carries the error.
C10_FallbackOnUnparseable ==
    (vcall.pc = "returned" /\ NoParseableObject(vcall.response)) =>
       /\ DOMAIN vcall.result = VerdictKeys
       /\ vcall.result.veredito = "'[INCONCLUSIVO]'"
       /\ vcall.result.confianca = "0"
       /\ vcall.result.evidencias = "[]"
       /\ vcall.result.analise \in
             {ErroAnalise(e) : e \in {"AttributeError", "JSONDecodeError"}}

\* a response with braces in it, but no JSON object, has been answered
W_C10_BracesButNoObject ==
    /\ vcall.pc = "returned"
    /\ NoParseableObject(vcall.response)
    /\ \E i \in DOMAIN vcall.response : vcall.response[i].t = "{"
    /\ vcall.result = fallback("JSONDecodeError")

\* a part of a response that holds no brace: prose or markdown fencing
BraceFree(s) == \A i \in DOMAIN s : s[i].t \notin {"{", "}"}

\* C11: for a response that is one valid JSON object, optionally wrapped in
\* markdown fencing or surrounded by text without braces, verify_claim
\* returns exactly that object, its veredito and confianca unchanged.
C11_ObjectExtractedUnchanged ==
    vcall.pc = "returned" =>
       \A i, j \in DOMAIN vcall.response :
          ( /\ i <= j
            /\ vcall.response[i].t = "{"
            /\ vcall.response[j].t = "}"
            /\ BraceFree(SubSeq(vcall.response, 1, i - 1))
            /\ BraceFree(SubSeq(vcall.response, j + 1, Len(vcall.response)))
            /\ json_loads(SubSeq(vcall.response, i, j)).ok )
          => vcall.result = json_loads(SubSeq(vcall.response, i, j)).dict

\* a fenced object with a nested object in it has been returned as it is
W_C11_FencedNestedObject ==
    /\ vcall.pc = "returned"
    /\ vcall.response =
          <<Fence, Open, Key("veredito"), Val("'[FALSO]'"),
            Key("fontes"), Open, Key("n"), Val("2"), Close, Close, Fence>>
    /\ vcall.result = [veredito |-> "'[FALSO]'", fontes |-> "{...}"]

IsPrefix(s, t) == Len(s) <= Len(t) /\ SubSeq(t, 1, Len(s)) = s

\* C12: no verify_claim or get_history step modifies or removes a record of
\* the verification history: the history before a step is a prefix of the
\* history after it.
C12_HistoryAppendOnly == [][IsPrefix(history, history')]_vars

\* a get_history call has read a history of two records, written by two
\* verify_claim calls, and the records are still there
W_C12_ReadAfterTwoAppends ==
    /\ history_view.called
    /\ history_view.limit = 20
    /\ verified = 2
    /\ Len(history) = 2
    /\ history_view.entries = history
    /\ history[1].claim # history[2].claim

\* ------------------------------------------------------------------------
\* Properties of the news detector (SpecAnalysis, SpecAnalysisSeq)
\* ------------------------------------------------------------------------
\* the backend call failed, or its reply is not JSON text, or the object
\* lacks a required field or holds a sub-score outside 0..10
FailsAnalysis(reply) ==
    \/ reply.raises
    \/ ~reply.json
    \/ ~(DetectionKeys \subseteq DOMAIN reply.data)
    \/ ~(ScoreNames \subseteq DOMAIN reply.data.scores)
    \/ \E n \in ScoreNames : reply.data.scores[n] \notin 0..10

\* C13: when the backend call, or the parsing or validation of its reply,
\* fails, analyze_article returns a record with is_fake false, confidence
\* 0.0, no markers, the four sub-scores equal to 5 and a reasoning that
\* starts with "Error".
C13_FallbackOnAnyFailure ==
    (last_analysis.called /\ FailsAnalysis(last_analysis.reply)) =>
       LET d == last_analysis.detection
       IN  /\ d.is_fake = FALSE
           /\ d.confidence_score = 0
           /\ d.detected_markers = <<>>
           /\ DOMAIN d.scores = ScoreNames
           /\ \A n \in ScoreNames : d.scores[n] = 5
           /\ d.reasoning[1] = "Error during analysis: "

\* a reply that is a complete object but for one sub-score was answered
\* with the fallback record
W_C13_FallbackOnMissingSubScore ==
    /\ last_analysis.called
    /\ last_analysis.reply.json
    /\ DetectionKeys \subseteq DOMAIN last_analysis.reply.data
    /\ ~(ScoreNames \subseteq DOMAIN last_analysis.reply.data.scores)
    /\ last_analysis.detection.scores = MidScores

\* C14: after any run_batch_analysis runs, overlapping ones included, the
\* analysis file holds at most one record per article URL.
C14_OneRecordPerArticle ==
    \A i, j \in DOMAIN analysis_file :
       i # j => analysis_file[i].article # analysis_file[j].article

\* the articles of the reference file that have no analysis record
Unanalysed ==
    {reference_file[i] : i \in DOMAIN reference_file}
       \ ({Malformed} \cup load_analyzed_urls(analysis_file))

\* C15: with runs repeated one after the other and limit >= 1, every run
\* that finds articles without an analysis writes a record for each article
\* it targets, so that the set of articles without an analysis gets
\* strictly smaller with every such run, and it is empty in the end, also
\* when every backend call fails.
C15_EveryRunMakesProgress ==
    /\ [][(finished_run'.pc = "returned" /\ Unanalysed # {}) =>
             /\ Unanalysed' \subseteq Unanalysed
             /\ Unanalysed' # Unanalysed
             /\ Len(finished_run'.written) >= 1
             /\ \A i \in DOMAIN finished_run'.written :
                   finished_run'.written[i].article \notin Unanalysed']_vars
    /\ <>[](Unanalysed = {})

\* every article of a full reference file has its record, and every record
\* is a fallback: all backend calls failed
W_C15_AllAnalysedByFallback ==
    /\ Len(load_data(reference_file)) = MaxArticles
    /\ Unanalysed = {}
    /\ Len(analysis_file) = MaxArticles
    /\ \A i \in DOMAIN analysis_file :
          analysis_file[i].detection.reasoning[1] = "Error during analysis: "

\* C16: a run that finds u articles without an analysis writes exactly one
\* record for each of the first min(limit, u) of them, in input order,
\* whether the analysis succeeded or fell back, and nothing else.
C16_BatchWritesEveryTarget ==
    finished_run.pc = "returned" =>
       LET u == Len(finished_run.new_articles)
           k == IF finished_run.limit < u THEN finished_run.limit ELSE u
           n == Len(analysis_file)
       IN  /\ Len(finished_run.written) = k
           /\ \A i \in 1..k :
                 finished_run.written[i].article = finished_run.new_articles[i]
           /\ n >= k
           /\ SubSeq(analysis_file, n - k + 1, n) = finished_run.written

\* a run with limit 2 found three articles and wrote a fallback record for
\* the first and a successful analysis for the second
W_C16_FailureThenSuccess ==
    /\ finished_run.pc = "returned"
    /\ finished_run.limit = 2
    /\ Len(finished_run.new_articles) = 3
    /\ Len(finished_run.written) = 2
    /\ finished_run.written[1].detection.scores = MidScores
    /\ finished_run.written[2].detection.scores = InRangeScores

\* C17: when the embedding or storing of one article fails during
\* index_documents, the call does not abort and only that article is left
\* out of the store: every other article of the reference file is indexed.
C17_OnlyFailedArticleUnindexed ==
    (index_call.pc \in {"returned", "raised"} /\ index_call.failed # 0) =>
       /\ index_call.pc = "returned"
       /\ \A i \in DOMAIN index_call.articles :
             index_call.articles[i] # index_call.failed
                => InSeq(index_call.articles[i], vector_store)
       /\ ~InSeq(index_call.failed, vector_store)

ScoresInRange(d) ==
    /\ DOMAIN d.scores = ScoreNames
    /\ \A n \in ScoreNames : d.scores[n] \in 0..10

\* C18: every result analyze_article returns and every record
\* run_batch_analysis writes has its four sub-scores in 0..10; a reply that
\* holds a sub-score outside that range is answered with the fallback
\* record, never with the reply's values.
C18_SubScoresInRange ==
    /\ last_analysis.called => ScoresInRange(last_analysis.detection)
    /\ \A i \in DOMAIN analysis_file : ScoresInRange(analysis_file[i].detection)
    /\ ( /\ last_analysis.called
         /\ last_analysis.reply.json
         /\ "scores" \in DOMAIN last_analysis.reply.data
         /\ \E n \in DOMAIN last_analysis.reply.data.scores :
               last_analysis.reply.data.scores[n] \notin 0..10 )
       => last_analysis.detection = fallback_detection("ValidationError")

\* a reply with a sub-score of 11 has just been turned down, and a record
\* with the boundary values 0 and 10 is in the analysis file
W_C18_OutOfRangeRejected ==
    /\ last_analysis.called
    /\ last_analysis.reply.json
    /\ DetectionKeys \subseteq DOMAIN last_analysis.reply.data
    /\ last_analysis.reply.data.scores.sensationalism = 11
    /\ last_analysis.detection.scores = MidScores
    /\ \E i \in DOMAIN analysis_file :
          analysis_file[i].detection.scores = InRangeScores

\* ------------------------------------------------------------------------
\* Properties of the manager under one caller (SpecManagerSeq, SpecBalanced)
\* ------------------------------------------------------------------------
\* the position of x in the sequence s
PosIn(x, s) == CHOOSE i \in DOMAIN s : s[i] = x

\* C21: the priority order of the pools is the order of the configured
\* enabled-provider list: without load balancing, the first provider a call
\* tries on a fresh manager is the member of its pool that comes first in
\* that list.
C21_PoolOrderFollowsEnabledList ==
    ( /\ Len(enabled_providers) > 0
      /\ ~load_balance
      /\ RanAlone
      /\ Len(outcome.tried) >= 1 )
    => \A i \in DOMAIN PoolOf(outcome.op) :
          PosIn(outcome.tried[1], enabled_providers)
             <= PosIn(PoolOf(outcome.op)[i], enabled_providers)

\* the served calls of one operation, oldest first
ServedOf(op) == SelectSeq(served, LAMBDA e : e.op = op)

\* the providers that served the last k calls of the log s
LastServers(s, k) == {s[i].from : i \in (Len(s) - k + 1)..Len(s)}

\* C22: with load balancing on, every provider healthy and every call
\* succeeding, any k consecutive calls of one operation, k being the size of
\* its pool, are served by k distinct providers, whatever other manager
\* calls come between them.
C22_RoundRobinPerOperation ==
    \A op \in Ops :
       LET k == Len(PoolOf(op))
           s == ServedOf(op)
       IN  (k >= 1 /\ Len(s) >= k) => Cardinality(LastServers(s, k)) = k

\* the fields of a provider object that a status entry repeats
Reports(entry, n) ==
    /\ entry.name = display_name(n)
    /\ entry.status = providers[n].status
    /\ entry.success_count = providers[n].success_count
    /\ entry.error_count = providers[n].error_count
    /\ entry.last_error = providers[n].last_error

\* C23: get_status changes no provider status, counter or last error and
\* not the rotation cursor, and what it returns holds one entry per provider
\* of each pool, in pool order, with that provider's current status,
\* counters and last error.
C23_GetStatusReadsOnly ==
    [][status_view'.called =>
         /\ UNCHANGED <<providers, current_provider_index, load_balance,
                        llm_providers, embedding_providers, calls>>
         /\ DOMAIN status_view'.llm_providers = DOMAIN llm_providers
         /\ \A i \in DOMAIN llm_providers :
               Reports(status_view'.llm_providers[i], llm_providers[i])
         /\ DOMAIN status_view'.embedding_providers = DOMAIN embedding_providers
         /\ \A i \in DOMAIN embedding_providers :
               Reports(status_view'.embedding_providers[i],
                       embedding_providers[i])]_vars

\* get_status has returned the snapshot of a manager one of whose providers
\* has succeeded once and then failed three times
W_C23_StatusShowsFailedProvider ==
    /\ status_view.called
    /\ \E i \in DOMAIN status_view.llm_providers :
          /\ status_view.llm_providers[i].status = "FAILED"
          /\ status_view.llm_providers[i].success_count = 1
          /\ status_view.llm_providers[i].last_error # None
    /\ Len(status_view.embedding_providers) >= 1

\* ------------------------------------------------------------------------
\* Properties of retry_api, as applied to verify_claim (SpecVerify)
\* ------------------------------------------------------------------------
\* C24: a wrapped function that fails with a rate-limit error on its first
\* j-1 invocations and succeeds on the j-th, j <= max_retries + 1, is invoked
\* exactly j times and its result is returned (once, when it succeeds at
\* once): the wrapper returns at the first success, and it does not give up
\* on a rate-limit error before invocation max_retries + 1.
C24_RetriesUntilSuccess ==
    /\ vcall.pc = "returned" =>
          /\ vcall.runs = vcall.rate_fails + 1
          /\ vcall.rate_fails <= retry_max_retries
          /\ vcall.result = parse_response(vcall.response)
    /\ (vcall.pc = "raised" /\ vcall.error \in RateLimitErrors) =>
          vcall.runs > retry_max_retries

\* the body has succeeded at invocation max_retries + 1, after max_retries
\* rate-limit errors
W_C24_SuccessAtLastInvocation ==
    /\ vcall.pc = "returned"
    /\ vcall.rate_fails = retry_max_retries
    /\ vcall.runs = retry_max_retries + 1
    /\ vcall.sleeps = retry_max_retries

\* C25: a wrapped function that fails with a rate-limit error on every
\* invocation is invoked exactly max_retries + 1 times, never more, and the
\* rate-limit error of the last invocation is raised to the caller.
C25_ExhaustedRetriesPropagate ==
    /\ vcall.runs <= retry_max_retries + 1
    /\ (vcall.pc = "raised" /\ vcall.rate_fails = vcall.runs) =>
          /\ vcall.runs = retry_max_retries + 1
          /\ vcall.error \in RateLimitErrors

\* every invocation has failed with a rate-limit error and the call raised
W_C25_AllInvocationsRateLimited ==
    /\ vcall.pc = "raised"
    /\ vcall.rate_fails = retry_max_retries + 1
    /\ vcall.error = "RESOURCE_EXHAUSTED"

\* C26: an error that is not a rate-limit error is raised to the caller at
\* the invocation where it occurs: that invocation is the last one, and the
\* wrapper has slept only after the rate-limit errors before it.
C26_OtherErrorsPropagateAtOnce ==
    (vcall.pc = "raised" /\ vcall.error \notin RateLimitErrors) =>
       /\ vcall.runs = vcall.rate_fails + 1
       /\ vcall.sleeps = vcall.rate_fails

\* another error has been raised at the second invocation, after one
\* rate-limit error
W_C26_OtherErrorAfterRateLimit ==
    /\ vcall.pc = "raised"
    /\ vcall.error = "other"
    /\ vcall.rate_fails = 1
    /\ vcall.runs = 2

\* ------------------------------------------------------------------------
\* Properties of adapt_embedding (SpecAdapter)
\* ------------------------------------------------------------------------
\* C27: for a vector shorter than the target, adapt_embedding gives a vector
\* of the target length whose first entries are the input, in the same
\* order, and whose later entries are all 0.0.
C27_PadsWithZeros ==
    (Len(adapted) >= 1 /\ Len(adapter_input) < adapter_target) =>
       /\ Len(adapted[1]) = adapter_target
       /\ SubSeq(adapted[1], 1, Len(adapter_input)) = adapter_input
       /\ \A i \in (Len(adapter_input) + 1)..adapter_target : adapted[1][i] = 0

\* a vector of two non-zero entries has been adapted to four dimensions
W_C27_TwoEntriesPaddedToFour ==
    /\ adapter_input = <<1, 2>>
    /\ adapter_target = 4
    /\ Len(adapted) >= 1
    /\ adapted[1] = <<1, 2, 0, 0>>

\* C28: for a vector at least as long as the target, adapt_embedding gives
\* the first target entries of it, so a vector of exactly the target length
\* comes back unchanged; and applying adapt_embedding a second time with
\* the same target changes nothing.
C28_TruncatesAndIsIdempotent ==
    /\ (Len(adapted) >= 1 /\ Len(adapter_input) >= adapter_target) =>
          adapted[1] = SubSeq(adapter_input, 1, adapter_target)
    /\ (Len(adapted) >= 1 /\ Len(adapter_input) = adapter_target) =>
          adapted[1] = adapter_input
    /\ Len(adapted) = 2 => adapted[2] = adapted[1]

\* a vector of three distinct entries has been cut to two dimensions, and
\* the result adapted again
W_C28_ThreeEntriesCutToTwo ==
    /\ adapter_input = <<1, 2, 0>>
    /\ adapter_target = 2
    /\ adapted = <<(<<1, 2>>), (<<1, 2>>)>>

\* ------------------------------------------------------------------------
\* Properties of the API-key check of the server (SpecServer)
\* ------------------------------------------------------------------------
\* the endpoint body ran for the request handled last
Admitted == http_response.body_ran

C30_ThreeFailedCallsDisable ==
    /\ [](failed_calls >= 3 => ~is_available(prov))
    /\ [][last_op' = "raised" /\ marks' # marks
             => prov'.success_count = prov.success_count]_vars

\* ------------------------------------------------------------------------
\* Properties of the rotation cursor under concurrent callers (Spec)
\* ------------------------------------------------------------------------
\* a selection of this step returned a provider: a provider call was started,
\* or the provider selected had been tried and the call raised
SelectedInStep ==
    \/ invocations' = invocations + 1
    \/ outcome'.pc = "raised" /\ outcome'.error.kind = "all_failed"

\* C31: the rotation cursor never decreases: a step in which a load-balanced
\* selection returns a provider advances it by exactly one, and every other
\* step (a selection in priority mode, a selection that finds no available
\* provider, a reply that ends a call) leaves it unchanged, so that it
\* counts the load-balanced selections made so far, whatever the
\* interleaving of the calls.
C31_CursorCountsSelections ==
    [][current_provider_index' =
          current_provider_index
             + (IF load_balance /\ SelectedInStep THEN 1 ELSE 0)]_vars

\* three load-balanced selections have been made and two calls are in flight
W_C31_CursorAtThreeWithTwoCalls ==
    /\ load_balance
    /\ current_provider_index = 3
    /\ BagCardinality(calls) = 2

\* ------------------------------------------------------------------------
\* Properties of the concurrency limit of the detector (SpecAnalysis)
\* ------------------------------------------------------------------------
\* C32: at every moment of a run_batch_analysis run at most MAX_CONCURRENCY
\* analyze_article calls of the run are in progress, also when the run
\* targets more articles than that.
C32_AtMostThreeInProgress ==
    \A run \in BagToSet(runs) : Cardinality(Running(run)) <= MAX_CONCURRENCY

\* a run that targets four articles has three calls in progress and the
\* fourth task waiting for the semaphore
W_C32_FourthTaskWaits ==
    \E run \in BagToSet(runs) :
       /\ Len(run.tasks) = MAX_CONCURRENCY + 1
       /\ Cardinality(Running(run)) = MAX_CONCURRENCY
       /\ run.tasks[MAX_CONCURRENCY + 1].st = "waiting"

\* ------------------------------------------------------------------------
\* Properties of the OpenAIProvider calls (SpecOpenAI)
\* ------------------------------------------------------------------------
\* C33: one OpenAIProvider call makes at most 5 backend requests; while it
\* is retrying rate-limit errors the health counters are as the call found
\* them; a call that raises has called mark_failure exactly once, after a
\* rate-limit error on attempt 5 or another error; and an attempt that the
\* backend answers calls mark_success exactly once (and mark_failure not at
\* all) and returns.
C33_OpenAIRetryContract ==
    /\ oai_call.attempts <= openai_max_retries
    /\ oai_call.pc = "running" => prov = oai_call.before
    /\ oai_call.pc = "raised" =>
          /\ oai_call.failures = 1
          /\ oai_call.last = "ratelimit" => oai_call.attempts = openai_max_retries
    /\ oai_call.last \in {"reply", "bad_json"} =>
          /\ oai_call.pc = "returned"
          /\ oai_call.successes = 1
          /\ oai_call.failures = 0

\* ------------------------------------------------------------------------
\* Properties of get_history (SpecVerify)
\* ------------------------------------------------------------------------
\* C34: for every limit >= 0, get_history(limit) returns at most limit
\* records: the last min(limit, n) records of the n-record history, in the
\* order they were appended; the history is as it was.
C34_HistoryReturnsLastLimit ==
    history_view.called =>
       LET n == Len(history)
           k == IF history_view.limit < n THEN history_view.limit ELSE n
       IN  /\ Len(history_view.entries) <= history_view.limit
           /\ history_view.entries = SubSeq(history, n - k + 1, n)

\* ------------------------------------------------------------------------
\* Properties of the pipeline (SpecPipeline)
\* ------------------------------------------------------------------------
\* C35: in the scheduled job and in the full-pipeline command, analysis
\* starts only after collection has completed and indexing only after
\* analysis has completed; in the scheduled job a stage that fails is
\* followed by no later stage and its exception does not leave the job.
C35_StagesInOrder ==
    /\ pipeline.analysis # "none" => pipeline.collection = "done"
    /\ pipeline.indexing # "none" => pipeline.analysis = "done"
    /\ pipeline.kind = "job" =>
          /\ ~pipeline.propagated
          /\ pipeline.analysis = "raised" => pipeline.indexing = "none"

\* ------------------------------------------------------------------------
\* Properties of the failover loop (Spec, SpecTermination)
\* ------------------------------------------------------------------------
\* the manager calls in flight and the call that has just ended
CallsInView == BagToSet(calls) \cup {outcome}

\* C36: within one manager call no provider is invoked more than once, in
\* priority mode and in load-balance mode, whatever the other calls do to
\* the providers' health meanwhile.
C36_NoProviderInvokedTwice ==
    \A cr \in CallsInView :
       \A i, j \in DOMAIN cr.tried : i # j => cr.tried[i] # cr.tried[j]

\* a call has invoked every provider of a three-provider pool, one after
\* the other, while load balancing is on
W_C36_ThreeProvidersTried ==
    /\ load_balance
    /\ \E cr \in BagToSet(calls) :
          Len(cr.tried) = 3 /\ Len(PoolOf(cr.op)) = 3

\* with a pool of N providers a call makes at most N provider invocations
\* and at most N + 1 selections
FailoverBounded ==
    \A cr \in CallsInView :
       cr.op # None =>
          /\ Len(cr.tried) <= Len(PoolOf(cr.op))
          /\ cr.selections <= Len(PoolOf(cr.op)) + 1

\* C37: every manager call terminates when each provider invocation returns
\* or raises: the calls in flight all end, and a call on a pool of N
\* providers makes at most N invocations and at most N + 1 selections.
C37_CallsTerminate ==
    /\ []FailoverBounded
    /\ (calls # EmptyBag) ~> (calls = EmptyBag)

\* a call has raised after N invocations and N + 1 selections
W_C37_AllTriedThenRaised ==
    /\ outcome.pc = "raised"
    /\ outcome.error.kind = "all_failed"
    /\ Len(outcome.tried) = Len(PoolOf(outcome.op))
    /\ outcome.selections = Len(PoolOf(outcome.op)) + 1
    /\ Len(outcome.tried) >= 2

\* ------------------------------------------------------------------------
\* Properties of priority-mode failover (SpecPriority)
\* ------------------------------------------------------------------------
\* in this step the call cr invokes its second provider
InvokesSecond(cr) ==
    /\ Len(cr.tried) = 2
    /\ CopiesIn(cr, calls') > CopiesIn(cr, calls)

StatusFollowsCounter ==
    ~Falsy(prov.api_key) =>
       /\ prov.status = "FAILED" <=> consec >= 3
       /\ prov.status = "ACTIVE" <=> consec < 3
       /\ prov.status \notin {"RATE_LIMITED", "DISABLED"}
       /\ prov.error_count = consec

\* C39: for a provider constructed with a credential, after any sequence
\* of mark_success and mark_failure calls the status is FAILED exactly when
\* the consecutive-error counter is at least 3 and ACTIVE exactly when it
\* is below 3; RATE_LIMITED and DISABLED are never reached; the success
\* counter never decreases.
C39_StatusFollowsCounter ==
    /\ []StatusFollowsCounter
    /\ [][prov'.success_count >= prov.success_count]_vars

\* a provider with a credential is ACTIVE again after three failures and
\* one success, and has then failed once more
W_C39_RecoveredThenFailedOnce ==
    /\ ~Falsy(prov.api_key)
    /\ marks = 5
    /\ prov.success_count = 1
    /\ last_op = "mark_failure"
    /\ consec = 1
    /\ prov.status = "ACTIVE"

\* ------------------------------------------------------------------------
\* Properties of a provider that is in both pools (Spec)
\* ------------------------------------------------------------------------
\* in this step the provider call of cr is answered
Answered(cr) == CopiesIn(cr, calls') < CopiesIn(cr, calls)

\* in this step the call record c starts to await its provider
Invoked(c) == CopiesIn(c, calls') > CopiesIn(c, calls)

\* the call that was answered in this step, as it goes on or ends
AfterAnswer ==
    IF outcome'.pc # "idle" THEN outcome'
    ELSE CHOOSE c \in BagToSet(calls') : Invoked(c)

====
